---- MODULE Spec2Model ----
(***************************************************************************)
(* Nexus CMDB: the register-machine chain (browser click -> local helper   *)
(* -> inventory script -> workflow webhook) and the page controllers of    *)
(* the web dashboard, modelled as state machines.                          *)
(*                                                                         *)
(* SpecHelper  the register-machine chain: ConfigurationItems.tsx          *)
(*             handleRegisterMachine, servidor/server.js, enviarLicenca    *)
(* Spec        the pages: every async handler run is a record of `tasks`   *)
(*             that advances one await at a time; the page state `ui` is   *)
(*             that of the mounted route                                   *)
(* SpecGraph   Relationships.tsx: the join of items and users and the      *)
(*             layout of the graph, for every content of the two tables    *)
(* SpecForm    the create/edit forms: the values react-hook-form holds     *)
(*             and the zod schemas deciding whether a submit is sent       *)
(* SpecLive    the Dashboard while a mutation sent from another page is    *)
(*             in flight; runs only, every request is answered             *)
(* SpecHelperLive  SpecHelper where every started script run goes on        *)
(* SpecCrud    a record page (or Settings) with its lists loaded:          *)
(*             overlapping submits, responses that overtake each other     *)
(* SpecReport  the Dashboard's report button, with or without a report     *)
(*             run of an earlier mount of the page still in flight         *)
(* SpecDash    the Dashboard's query over incidents of any status          *)
(* SpecParts   Reports.tsx over a table of report parts of any content     *)
(* SpecFilter  the search box of ConfigurationItems over items with text   *)
(***************************************************************************)
EXTENDS Integers, Sequences, FiniteSets, TLC

\* ------------------------------------------------------------------------
\* Bounds of the model
\* ------------------------------------------------------------------------
\* Clicks on "Registrar Maquina" in one behaviour.
MaxClicks == 2
\* Handler runs (page loads and user actions) started in one behaviour.
MaxTasks == 2
\* Row ids the backend hands out per table.
MaxId == 3
\* Rows of configuration_items and of users the relationship graph is built from.
MaxItems == 3
MaxUsers == 3
\* Field changes and submit attempts of the create/edit form in one behaviour.
MaxInputs == 3
MaxSubmits == 1
\* Rows of texto_relatorio and the latest created_at.
MaxParts == 4
MaxTime == 2

\* ------------------------------------------------------------------------
\* State
\* ------------------------------------------------------------------------
VARIABLES
  reg,           \* one record per click on "Registrar Maquina": the whole chain
  db,            \* backend tables configuration_items, incidents, users
  nextId,        \* per table, the id the backend gives the next inserted row
  settings,      \* backend table settings: rows [id, key, value]
  logs,          \* backend table logs, in insertion order
  route,         \* the page the router shows
  ui,            \* the state (useState, useForm, useQuery) of the mounted page
  search,        \* SearchProvider and SearchDialog state
  notifications, \* NotificationsProvider: the in-session notification list
  tasks          \* the async handler runs started so far, finished ones kept

vars == <<reg, db, nextId, settings, logs, route, ui, search, notifications, tasks>>
uiVars == <<db, nextId, settings, logs, route, ui, search, notifications, tasks>>

\* ------------------------------------------------------------------------
\* The register-machine chain
\* ------------------------------------------------------------------------
\* exec's `error` argument when the command ran and exited with code 0.
NoError == "null"

\* error.message of the Error exec passes when the command could not be run,
\* exited with a non-zero code or was killed.
ExecErrors == {"Command failed: powershell.exe"}

\* The lines the script writes with Write-Host, in order.
LineColetando == "Coletando dados do ativo..."
LineColeta == "Coleta concluida."
LineEnviando == "Enviando dados para o N8N em $webhookUrl..."
LineSucesso == "Dados do ativo enviados com sucesso para o N8N."
LineErro == "ERRO ao enviar dados para o N8N:"
LineExcecao == "$_"

\* The URL the script posts to.
webhookUrl == "http://host.docker.internal:5678/webhook/d531f600-61a9-4f62-916f-69152adc3d8c"

\* The toasts of handleRegisterMachine.
ToastRegistrando == "Registrando maquina..."
ToastRegistrada == "Maquina Registrada!"
ToastErroRegistrar == "Erro ao registrar maquina"
ToastErroConexao == "Erro de Conexao"

\* A chain right after the click: the toast is shown and fetch has issued its
\* one POST to http://localhost:3001/registrar-maquina.
NewFlow ==
  [ br        |-> "fetch",      \* handleRegisterMachine: "fetch" (awaiting) or "done"
    toasts    |-> <<ToastRegistrando>>,
    posts     |-> 1,            \* POSTs this click sent to the helper
    delivered |-> FALSE,        \* the helper's route handler ran for it
    launches  |-> 0,            \* exec calls made for this request
    script    |-> "none",       \* none, start, collected, posted, exited
    stdout    |-> <<>>,
    stderr    |-> <<>>,
    error     |-> NoError,
    hooks     |-> <<>>,         \* URLs the script POSTed the payload to
    called    |-> FALSE,        \* exec's callback ran
    responses |-> <<>> ]        \* what the helper sent with res.json

Flows == 1..Len(reg)

\* The script has been launched and its process has not exited.
Running(f) == f.script \in {"start", "collected", "posted"}

\* handleRegisterMachine, up to its await of fetch.
handleRegisterMachine ==
  /\ Len(reg) < MaxClicks
  /\ reg' = Append(reg, NewFlow)
  /\ UNCHANGED uiVars

\* A helper that queued a request while an earlier script is still running.
RouteHandlerSerialised(r, c) ==
  IF \E d \in 1..Len(r) : Running(r[d])
  THEN [r EXCEPT ![c] = [@ EXCEPT !.delivered = TRUE]]
  ELSE [r EXCEPT ![c] = [@ EXCEPT !.delivered = TRUE,
                                  !.launches = @ + 1, !.script = "start"]]

\* A route handler that answers right after calling exec, not in its callback.
RouteHandlerAnswersAtOnce(r, c) ==
  [r EXCEPT ![c] = [@ EXCEPT !.delivered = TRUE,
                             !.launches = @ + 1, !.script = "start",
                             !.responses = <<[status |-> 200,
                                              body |-> [success |-> TRUE,
                                                        message |-> <<>>]]>>]]

\* The route handler (server.js 10-39) for request c: it calls
\* exec(comando, {cwd}, callback), which spawns the child process at once
\* and returns; the handler holds no lock and keeps no queue.
RouteHandler(r, c) ==
  [r EXCEPT ![c] = [@ EXCEPT !.delivered = TRUE,
                             !.launches = @ + 1, !.script = "start"]]

\* app.post('/registrar-maquina', (req, res) => ...): a request arrives.
registrarMaquina(c) ==
  /\ reg[c].br = "fetch"
  /\ ~reg[c].delivered
  /\ reg' = RouteHandler(reg, c)
  /\ UNCHANGED uiVars

\* Script lines 11-38: the OS queries. Get-CimInstance reports a failed query
\* on the error stream and the script goes on.
ScriptCollect(c) ==
  /\ reg[c].script = "start"
  /\ \E warn \in {<<>>, <<"Get-CimInstance : Access denied">>} :
       reg' = [reg EXCEPT ![c] =
                 [@ EXCEPT !.script = "collected",
                           !.stdout = @ \o <<LineColetando, LineColeta>>,
                           !.stderr = @ \o warn]]
  /\ UNCHANGED uiVars

\* A script that posts again from its catch block.
ScriptSendRetry(f, ok) ==
  [f EXCEPT !.script = "posted",
            !.hooks = IF ok THEN Append(@, webhookUrl)
                            ELSE @ \o <<webhookUrl, webhookUrl>>,
            !.stdout = @ \o (IF ok THEN <<LineEnviando, LineSucesso>>
                                   ELSE <<LineEnviando, LineErro, LineExcecao>>)]

\* Script lines 60-70: try { Invoke-RestMethod } catch { Write-Host }.
\* `ok` is whether the webhook accepted the POST.
ScriptSend(f, ok) ==
  [f EXCEPT !.script = "posted",
            !.hooks = Append(@, webhookUrl),
            !.stdout = @ \o (IF ok THEN <<LineEnviando, LineSucesso>>
                                   ELSE <<LineEnviando, LineErro, LineExcecao>>)]

ScriptPost(c) ==
  /\ reg[c].script = "collected"
  /\ \E ok \in BOOLEAN : reg' = [reg EXCEPT ![c] = ScriptSend(@, ok)]
  /\ UNCHANGED uiVars

\* The script reaches its end: exit code 0.
ScriptExit(c) ==
  /\ reg[c].script = "posted"
  /\ reg' = [reg EXCEPT ![c] = [@ EXCEPT !.script = "exited"]]
  /\ UNCHANGED uiVars

\* The command cannot be run, is killed or exits with a non-zero code:
\* exec will pass an Error to the callback.
ScriptAbort(c) ==
  /\ Running(reg[c])
  /\ \E e \in ExecErrors :
       reg' = [reg EXCEPT ![c] = [@ EXCEPT !.script = "exited", !.error = e]]
  /\ UNCHANGED uiVars

\* A callback that answers failure whenever the script wrote to stderr.
ExecCallbackBranchOnStderr(error, stdout, stderr) ==
  IF error # NoError \/ stderr # <<>>
  THEN << [status |-> 500,
           body |-> [success |-> FALSE,
                     message |-> <<"Erro no PowerShell: ", error>>]] >>
  ELSE << [status |-> 200, body |-> [success |-> TRUE, message |-> stdout]] >>

\* A callback that reads the script's output and answers failure when the
\* script printed its error line.
ExecCallbackReadsStdout(error, stdout, stderr) ==
  IF error # NoError \/ \E k \in 1..Len(stdout) : stdout[k] = LineErro
  THEN << [status |-> 500,
           body |-> [success |-> FALSE,
                     message |-> <<"Erro no PowerShell: ", error>>]] >>
  ELSE << [status |-> 200, body |-> [success |-> TRUE, message |-> stdout]] >>

\* The callback of exec (server.js 21-38): the responses it sends.
ExecCallback(error, stdout, stderr) ==
  IF error # NoError
  THEN << [status |-> 500,
           body |-> [success |-> FALSE,
                     message |-> <<"Erro no PowerShell: ", error>>]] >>
  ELSE << [status |-> 200, body |-> [success |-> TRUE, message |-> stdout]] >>

\* An exec whose callback is called only for a script that exited cleanly.
ScriptExitedCleanOnly(c) ==
  /\ reg[c].script = "exited"
  /\ reg[c].error = NoError
  /\ ~reg[c].called
  /\ reg' = [reg EXCEPT ![c] =
               [@ EXCEPT !.called = TRUE,
                         !.responses = @ \o ExecCallback(reg[c].error,
                                                         reg[c].stdout,
                                                         reg[c].stderr)]]
  /\ UNCHANGED uiVars

\* Node calls the callback once, when the child process has exited.
ScriptExited(c) ==
  /\ reg[c].script = "exited"
  /\ ~reg[c].called
  /\ reg' = [reg EXCEPT ![c] =
               [@ EXCEPT !.called = TRUE,
                         !.responses = @ \o ExecCallback(reg[c].error,
                                                         reg[c].stdout,
                                                         reg[c].stderr)]]
  /\ UNCHANGED uiVars

\* response.ok of fetch.
ResponseOk(r) == r.status \in 200..299

\* handleRegisterMachine after `await fetch` and `await response.json()`.
RegisterMachineToast(r) ==
  IF ResponseOk(r) /\ r.body.success THEN ToastRegistrada ELSE ToastErroRegistrar

handleRegisterMachineResponse(c) ==
  /\ reg[c].br = "fetch"
  /\ reg[c].responses # <<>>
  /\ reg' = [reg EXCEPT ![c] =
               [@ EXCEPT !.br = "done",
                         !.toasts = Append(@, RegisterMachineToast(reg[c].responses[1]))]]
  /\ UNCHANGED uiVars

\* handleRegisterMachine's catch: fetch rejected (helper not running,
\* connection lost).
handleRegisterMachineCatch(c) ==
  /\ reg[c].br = "fetch"
  /\ reg' = [reg EXCEPT ![c] =
               [@ EXCEPT !.br = "done", !.toasts = Append(@, ToastErroConexao)]]
  /\ UNCHANGED uiVars

\* ------------------------------------------------------------------------
\* The backend tables and the pages
\* ------------------------------------------------------------------------
Tables == {"configuration_items", "incidents", "users"}
Pages == Tables \cup {"dashboard", "settings", "changes", "relationships", "reports"}

Ids == 1..MaxId
\* What a form submits as the record's content (name, title, ...).
Vals == {"va", "vb"}
\* No row with this id.
NoRow == "absent"
EmptyList == [i \in Ids |-> NoRow]
\* selectedItem / selectedIncident / selectedUser when null.
NoSelection == [id |-> 0, val |-> NoRow]

\* The error of a backend call: none, PostgREST's "no (or many) rows for
\* single()", or any other backend or network error.
PGRST116 == "PGRST116"
OtherError == "error"
Outcomes == {NoError, OtherError}

\* record_id: payload.recordId?.toString()
IdStr(i) == IF i = 0 THEN "undefined" ELSE ToString(i)

\* settings.tsx SETTING_KEY
SETTING_KEY == "n8n_webhook_url"
UrlA == "https://n8n.example/webhook/a"
UrlB == "https://n8n.example/webhook/b"

\* The call sites whose error a handler can be handed.
SiteList == "list fetch"
SiteOwners == "owners fetch"
SiteLookups == "incident lookups"
SiteMutation == "mutation"
SiteLog == "audit-log write"
SiteSettingsLoad == "settings load"
SiteSettingsNoRow == "settings load: no row"
SiteSettingsPreread == "settings read before save"
SiteReportSettings == "report: settings read"
SiteReportPost == "report: webhook POST"
SiteRegisterPost == "register server: webhook POST"
SiteDashItems == "dashboard: items"
SiteDashCounts == "dashboard: counts"
SiteSystemLogs == "system logs"
SiteRelationships == "relationships"
SiteReport == "report parts"
SiteSolution == "AI solution"
SiteSearch == "search dialog"

\* An async handler run. The fields after `err` record what the run did.
NewTask(kind, page, pc) ==
  [ kind   |-> kind,
    page   |-> page,
    pc     |-> pc,        \* the await the run is suspended at, or "done"
    live   |-> TRUE,      \* its component is still mounted
    id     |-> 0,         \* the row the run is about
    val    |-> NoRow,     \* the form values of the run
    err    |-> NoError,   \* the error of its mutation
    opener |-> "none",    \* which handler opened the dialog it was started from
    openId |-> 0,         \* and for which record
    errs   |-> {},        \* call sites that returned an error to the run
    shown  |-> {},        \* those it showed to the user (toast or inline)
    thrown |-> {},        \* those whose error was raised as an exception
    caught |-> {},        \* those whose exception a catch block or useQuery took
    toasts |-> <<>>,      \* titles of the toasts it raised
    logged |-> <<>>,      \* payloads it passed to logActivity
    muts   |-> <<>>,      \* mutation requests it sent
    posts  |-> <<>>,      \* URLs it sent a webhook POST to
    acc    |-> <<>> ]     \* results of earlier awaits the run still holds

TaskIds == 1..Len(tasks)

\* The pages that read through useQuery, one query key each, and what the
\* QueryClient (one for the application, App.tsx) holds for a key before its
\* first answer. A page shows the records, rows or items of its key.
QueryPages == {"dashboard", "changes", "relationships"}
QueryKinds == {"query", "systemLogs", "relationships"}
NoCounts == [config_items_count |-> 0, incidents |-> 0, changes |-> 0, users |-> 0]
NoQuery(p) == [query |-> "loading", data |-> IF p = "changes" THEN <<>> ELSE NoCounts,
               updated |-> FALSE]   \* a fetch of the key has succeeded

\* The initial state of a page component, and of the query cache.
InitUi ==
  [ items           |-> EmptyList,   \* items / incidents / users
    filteredItems   |-> EmptyList,   \* the rows the table renders
    searchTerm      |-> <<>>,        \* the search box, as a sequence of characters
    users           |-> EmptyList,   \* the owners (users) lookup list
    cis             |-> EmptyList,   \* Incidents: configItems
    selected        |-> NoSelection,
    dialogMode      |-> "create",
    isFormOpen      |-> FALSE,
    isViewOpen      |-> FALSE,
    isDeleteOpen    |-> FALSE,
    opener          |-> "none",      \* the handler that last opened the form
    openId          |-> 0,           \* the record the form was opened for
    deleteFor       |-> 0,           \* the record the delete dialog was opened for
    isSendingReport |-> FALSE,
    query           |-> "loading",   \* useQuery: loading, success, error
    data            |-> NoCounts,
    cache           |-> [p \in QueryPages |-> NoQuery(p)],  \* the QueryClient
    url             |-> "",          \* Settings form: n8n_webhook_url
    logRows         |-> <<>>,        \* Changes: the rows of the log table shown
    isLoading       |-> FALSE,       \* Reports: isLoading
    isSolutionDialogOpen |-> FALSE,  \* Incidents: the AI solution dialog
    isSolutionLoading    |-> FALSE,
    inline          |-> "none" ]     \* the inline message shown, if any

\* useQuery on a render of page p: the status and the data the cache holds
\* for the page's key.
useQuery(u, p) ==
  IF p \notin QueryPages THEN u
  ELSE IF p = "changes"
  THEN [u EXCEPT !.query = u.cache[p].query, !.logRows = u.cache[p].data]
  ELSE [u EXCEPT !.query = u.cache[p].query, !.data = u.cache[p].data]

\* The fetch of run t has settled: the cache takes the result (an error
\* leaves the data of an earlier success in place) whether or not the page
\* is mounted, and a mounted page renders it.
QuerySettled(u, t, status, data) ==
  LET u1 == [u EXCEPT !.cache[t.page] =
                        [query |-> status,
                         data |-> IF status = "success" THEN data ELSE @.data,
                         updated |-> status = "success" \/ @.updated]]
  IN IF t.live THEN useQuery(u1, t.page) ELSE u1

\* Dialog and AlertDialog are modal: while one is open the page behind it
\* takes no clicks.
NoDialogOpen ==
  /\ ~ui.isFormOpen /\ ~ui.isViewOpen /\ ~ui.isDeleteOpen
  /\ ~ui.isSolutionDialogOpen /\ ~search.isOpen

\* What the first list fetch of a page shows when it fails.
ToastErroBuscar(page) ==
  CASE page = "configuration_items" -> "Erro ao buscar itens"
    [] page = "incidents" -> "Erro ao buscar incidentes"
    [] OTHER -> "Erro ao buscar usuarios"

\* A handler tail that closes the form whatever the mutation returned.
FinishClosesAlways(t, u) ==
  IF ~t.live THEN u
  ELSE IF t.kind \in {"create", "edit"} THEN [u EXCEPT !.isFormOpen = FALSE]
  ELSE IF t.kind = "delete" THEN [u EXCEPT !.isDeleteOpen = FALSE]
  ELSE u

\* The handler's statements after its last await: onFormSubmit closes the
\* form, onConfirmDelete closes the delete dialog. A run whose component
\* was unmounted changes nothing.
Finish(t, u) ==
  IF ~t.live THEN u
  ELSE IF t.kind \in {"create", "edit"} /\ t.err = NoError
       THEN [u EXCEPT !.isFormOpen = FALSE]
  ELSE IF t.kind = "delete" THEN [u EXCEPT !.isDeleteOpen = FALSE]
  ELSE u

\* fetchData / fetchUsers: the awaits after the first one.
AfterItems(page) == IF page = "users" THEN "done" ELSE "owners"
AfterOwners(page) == IF page = "incidents" THEN "cis" ELSE "done"

\* Moves run i to `next`, running the handler's tail when that ends it.
Advance(i, t, next, u) ==
  /\ tasks' = [tasks EXCEPT ![i] = [t EXCEPT !.pc = next]]
  /\ ui' = IF next = "done" THEN Finish(t, u) ELSE u

\* A fetchData that only reads the data and never looks at the error.
fetchDataErrorIgnored(t) ==
  [t EXCEPT !.errs = @ \cup {SiteList}]

\* fetchData: if (error) toast({ title: "Erro ao buscar ...", ... })
fetchDataError(t) ==
  [t EXCEPT !.errs = @ \cup {SiteList},
            !.shown = @ \cup {SiteList},
            !.toasts = Append(@, ToastErroBuscar(t.page))]

\* The backend executes the select of fetchData's first await; its response
\* is still on its way. The run's `acc` holds the rows the response carries.
selectServed(i) ==
  /\ tasks[i].pc = "items"
  /\ tasks[i].acc = <<>>
  /\ tasks' = [tasks EXCEPT ![i].acc = <<db[tasks[i].page]>>]
  /\ UNCHANGED <<reg, db, nextId, settings, logs, route, ui, search, notifications>>

\* The rows the response of the first select carries: those read when the
\* backend executed it, which is now unless selectServed came earlier.
SelectedRows(t) == IF t.acc = <<>> THEN db[t.page] ELSE t.acc[1]

\* String.prototype.toLowerCase and includes over the characters in use.
LowerOf(c) == CASE c = "A" -> "a" [] c = "B" -> "b" [] OTHER -> c
toLowerCase(s) == [k \in 1..Len(s) |-> LowerOf(s[k])]
includes(s, t) ==
  \E i \in 1..(Len(s) + 1) :
     i + Len(t) - 1 <= Len(s) /\ SubSeq(s, i, i + Len(t) - 1) = t

\* The predicate of items.filter in ConfigurationItems. Every string
\* includes the empty one, so a row is read for a non-empty term only;
\* Incidents and Users filter the same way over their own fields.
itemMatches(item, term) ==
  \/ term = <<>>
  \/ includes(toLowerCase(item.name), toLowerCase(term))
  \/ includes(toLowerCase(item.item_type), toLowerCase(term))
  \/ includes(toLowerCase(item.id), toLowerCase(term))

\* An effect that depends on [searchTerm] only: a new `items` does not run it.
searchEffectOnTermOnly(u, old) ==
  IF u.searchTerm = old.searchTerm THEN u
  ELSE [u EXCEPT !.filteredItems =
                   SelectSeq(u.items, LAMBDA item : itemMatches(item, u.searchTerm))]

\* useEffect(..., [searchTerm, items]): run after a render in which the term
\* or the items array changed (a fetched array is always a new one);
\* `old` is the state of the render before.
searchEffect(u, old) ==
  [u EXCEPT !.filteredItems =
              SelectSeq(u.items, LAMBDA item : itemMatches(item, u.searchTerm))]

\* onChange of the search box: setSearchTerm(e.target.value), then the effect.
setSearchTerm(term) ==
  /\ route \in Tables
  /\ NoDialogOpen
  /\ term # ui.searchTerm
  /\ ui' = searchEffect([ui EXCEPT !.searchTerm = term], ui)
  /\ UNCHANGED <<reg, db, nextId, settings, logs, route, search, notifications, tasks>>

\* fetchData, first await: the response of select * from the page's table
\* arrives; setItems(itemsData); setFilteredItems(itemsData); then the search
\* effect runs, the items being new.
fetchData(i) ==
  /\ tasks[i].pc = "items"
  /\ \E e \in Outcomes :
       LET t == tasks[i]
           t1 == IF e = NoError THEN [t EXCEPT !.acc = <<>>]
                 ELSE fetchDataError([t EXCEPT !.acc = <<>>])
           u1 == IF e = NoError /\ t.live
                 THEN searchEffect([ui EXCEPT !.items = SelectedRows(t),
                                               !.filteredItems = SelectedRows(t)], ui)
                 ELSE ui
       IN Advance(i, t1, AfterItems(t.page), u1)
  /\ UNCHANGED <<reg, db, nextId, settings, logs, route, search, notifications>>

\* fetchData, second await: select id, name from users. ConfigurationItems
\* raises a toast on error, Incidents drops the error.
fetchDataUsers(i) ==
  /\ tasks[i].pc = "owners"
  /\ \E e \in Outcomes :
       LET t == tasks[i]
           t1 == IF e = NoError THEN t
                 ELSE IF t.page = "configuration_items"
                 THEN [t EXCEPT !.errs = @ \cup {SiteOwners},
                                !.shown = @ \cup {SiteOwners},
                                !.toasts = Append(@, "Erro ao buscar usuarios")]
                 ELSE [t EXCEPT !.errs = @ \cup {SiteLookups}]
           u1 == IF e = NoError /\ t.live
                 THEN [ui EXCEPT !.users = db["users"]] ELSE ui
       IN Advance(i, t1, AfterOwners(t.page), u1)
  /\ UNCHANGED <<reg, db, nextId, settings, logs, route, search, notifications>>

\* Incidents.fetchData, third await: select id, name from configuration_items.
fetchDataConfigItems(i) ==
  /\ tasks[i].pc = "cis"
  /\ \E e \in Outcomes :
       LET t == tasks[i]
           t1 == IF e = NoError THEN t
                 ELSE [t EXCEPT !.errs = @ \cup {SiteLookups}]
           u1 == IF e = NoError /\ t.live
                 THEN [ui EXCEPT !.cis = db["configuration_items"]] ELSE ui
       IN Advance(i, t1, "done", u1)
  /\ UNCHANGED <<reg, db, nextId, settings, logs, route, search, notifications>>

\* ------------------------------------------------------------------------
\* ConfigurationItems, Incidents, Users: the CRUD handlers
\* ------------------------------------------------------------------------
\* A handleCreate that leaves dialogMode as the last dialog set it.
handleCreateKeepsMode(u) ==
  [u EXCEPT !.isFormOpen = TRUE, !.opener = "handleCreate", !.openId = 0]

handleCreateUi(u) ==
  [u EXCEPT !.dialogMode = "create", !.isFormOpen = TRUE,
            !.opener = "handleCreate", !.openId = 0]

\* "Novo IC" / "Novo Incidente" / "Novo Usuario".
handleCreate ==
  /\ route \in Tables
  /\ NoDialogOpen
  /\ ui' = handleCreateUi(ui)
  /\ UNCHANGED <<reg, db, nextId, settings, logs, route, search, notifications, tasks>>

\* handleEdit: setSelectedItem(item), form.reset(item), the mode, the dialog.
handleEditUi(u, id) ==
  [u EXCEPT !.selected = [id |-> id, val |-> u.items[id]],
            !.dialogMode = "edit", !.isFormOpen = TRUE,
            !.opener = "handleEdit", !.openId = id]

\* The row menus act on a row of the displayed list.
handleEdit(id) ==
  /\ route \in Tables
  /\ NoDialogOpen
  /\ ui.items[id] # NoRow
  /\ ui' = handleEditUi(ui, id)
  /\ UNCHANGED <<reg, db, nextId, settings, logs, route, search, notifications, tasks>>

handleView(id) ==
  /\ route \in Tables
  /\ NoDialogOpen
  /\ ui.items[id] # NoRow
  /\ ui' = [ui EXCEPT !.selected = [id |-> id, val |-> ui.items[id]],
                      !.isViewOpen = TRUE]
  /\ UNCHANGED <<reg, db, nextId, settings, logs, route, search, notifications, tasks>>

handleDelete(id) ==
  /\ route \in Tables
  /\ NoDialogOpen
  /\ ui.items[id] # NoRow
  /\ ui' = [ui EXCEPT !.selected = [id |-> id, val |-> ui.items[id]],
                      !.isDeleteOpen = TRUE, !.deleteFor = id]
  /\ UNCHANGED <<reg, db, nextId, settings, logs, route, search, notifications, tasks>>

\* onOpenChange(false) of the three dialogs: Cancelar, Escape, the close box.
setIsFormOpenFalse ==
  /\ ui.isFormOpen
  /\ ui' = [ui EXCEPT !.isFormOpen = FALSE]
  /\ UNCHANGED <<reg, db, nextId, settings, logs, route, search, notifications, tasks>>

setIsViewOpenFalse ==
  /\ ui.isViewOpen
  /\ ui' = [ui EXCEPT !.isViewOpen = FALSE]
  /\ UNCHANGED <<reg, db, nextId, settings, logs, route, search, notifications, tasks>>

setIsDeleteOpenFalse ==
  /\ ui.isDeleteOpen
  /\ ui' = [ui EXCEPT !.isDeleteOpen = FALSE]
  /\ UNCHANGED <<reg, db, nextId, settings, logs, route, search, notifications, tasks>>

\* Inserts sent and not yet answered, per table.
InsertsInFlight(page) ==
  Cardinality({i \in TaskIds : tasks[i].kind = "create" /\ tasks[i].page = page
                               /\ tasks[i].pc = "mutate"})

\* onFormSubmit, up to its first await: the insert or update request is sent.
onFormSubmitRequest(mode, page, sel, values, u) ==
  IF mode = "create"
  THEN [NewTask("create", page, "mutate") EXCEPT
          !.val = values, !.opener = u.opener, !.openId = u.openId,
          !.muts = <<[op |-> "insert", table |-> page, id |-> 0]>>]
  ELSE [NewTask("edit", page, "mutate") EXCEPT
          !.id = sel.id, !.val = values, !.opener = u.opener, !.openId = u.openId,
          !.muts = <<[op |-> "update", table |-> page, id |-> sel.id]>>]

\* "Salvar" with values that pass the form's schema.
onFormSubmit(values) ==
  /\ route \in Tables
  /\ ui.isFormOpen
  /\ Len(tasks) < MaxTasks
  /\ ui.dialogMode = "create" => nextId[route] + InsertsInFlight(route) <= MaxId
  /\ tasks' = Append(tasks, onFormSubmitRequest(ui.dialogMode, route, ui.selected,
                                               values, ui))
  /\ UNCHANGED <<reg, db, nextId, settings, logs, route, ui, search, notifications>>

\* An onConfirmDelete that deletes the row shown first in the list.
onConfirmDeleteFirstRow(page, sel, u) ==
  LET first == CHOOSE i \in Ids : u.items[i] # NoRow
                                  /\ \A j \in Ids : u.items[j] # NoRow => i <= j
  IN [NewTask("delete", page, "mutate") EXCEPT
        !.id = first, !.val = u.items[first], !.openId = u.deleteFor,
        !.muts = <<[op |-> "delete", table |-> page, id |-> first]>>]

\* onConfirmDelete, up to its first await: the delete request is sent.
onConfirmDeleteRequest(page, sel, u) ==
  [NewTask("delete", page, "mutate") EXCEPT
     !.id = sel.id, !.val = sel.val, !.openId = u.deleteFor,
     !.muts = <<[op |-> "delete", table |-> page, id |-> sel.id]>>]

\* "Continuar" in the delete dialog: AlertDialogAction runs onConfirmDelete
\* up to its first await and, in the same click, onOpenChange(false).
onConfirmDelete ==
  /\ route \in Tables
  /\ ui.isDeleteOpen
  /\ Len(tasks) < MaxTasks
  /\ IF ui.selected = NoSelection
     THEN UNCHANGED tasks
     ELSE tasks' = Append(tasks, onConfirmDeleteRequest(route, ui.selected, ui))
  /\ ui' = [ui EXCEPT !.isDeleteOpen = FALSE]
  /\ UNCHANGED <<reg, db, nextId, settings, logs, route, search, notifications>>

\* The action and the titles per handler kind.
ActionOf(kind) ==
  CASE kind = "create" -> "INSERT"
    [] kind = "delete" -> "DELETE"
    [] OTHER -> "UPDATE"

ToastErro(kind) ==
  CASE kind = "create" -> "Erro ao criar"
    [] kind = "edit" -> "Erro ao editar"
    [] kind = "delete" -> "Erro ao excluir"
    [] OTHER -> "Erro ao salvar configuracao"

ToastSucesso(kind) ==
  CASE kind = "create" -> "criado com sucesso!"
    [] kind = "edit" -> "editado com sucesso!"
    [] kind = "delete" -> "excluido com sucesso!"
    [] OTHER -> "Configuracoes salvas com sucesso!"

\* The errors the backend can answer a mutation with. update(...).single()
\* answers PGRST116 when no row has the id.
MutationOutcomes(t) ==
  IF t.kind = "edit" /\ db[t.page][t.id] = NoRow THEN {PGRST116} ELSE Outcomes

\* A delete that matches on the record's content instead of its id.
MutatedByContent(t, table, fresh) ==
  CASE t.kind = "create" -> [table EXCEPT ![fresh] = t.val]
    [] t.kind = "edit" -> [table EXCEPT ![t.id] = t.val]
    [] OTHER -> [j \in Ids |-> IF table[j] = table[t.id] THEN NoRow ELSE table[j]]

\* The table after the mutation of run t succeeded.
Mutated(t, table, fresh) ==
  CASE t.kind = "create" -> [table EXCEPT ![fresh] = t.val]
    [] t.kind = "edit" -> [table EXCEPT ![t.id] = t.val]
    [] OTHER -> [table EXCEPT ![t.id] = NoRow]

\* The payload the handler passes to logActivity: isError: true in the error
\* branch, no isError in the success branch.
LogPayload(t, e, recordId) ==
  [action |-> ActionOf(t.kind), tableName |-> t.page, recordId |-> recordId,
   isError |-> IF e # NoError THEN <<TRUE>> ELSE <<>>]

\* The branch taken after the awaited mutation: toast, addNotification
\* (ConfigurationItems and Incidents only) and the call of logActivity.
AfterMutation(t, e, recordId) ==
  IF e # NoError
  THEN [t EXCEPT !.err = e, !.pc = "log",
                 !.errs = @ \cup {SiteMutation}, !.shown = @ \cup {SiteMutation},
                 !.toasts = Append(@, ToastErro(t.kind)),
                 !.logged = Append(@, LogPayload(t, e, recordId))]
  ELSE [t EXCEPT !.pc = "log",
                 !.toasts = Append(@, ToastSucesso(t.kind)),
                 !.logged = Append(@, LogPayload(t, e, recordId))]

\* An addNotification that puts the new entry first.
addNotificationPrepends(prev, entry) == <<entry>> \o prev

\* NotificationsProvider.addNotification: [...prev, entry].
addNotification(prev, entry) == Append(prev, entry)

\* The backend answers the insert / update / delete of run i.
mutationReturns(i) ==
  /\ tasks[i].pc = "mutate"
  /\ tasks[i].kind \in {"create", "edit", "delete"}
  /\ \E e \in MutationOutcomes(tasks[i]) :
       LET t == tasks[i]
           fresh == nextId[t.page]
           newId == IF t.kind = "create" /\ e = NoError THEN fresh ELSE t.id
       IN /\ db' = IF e = NoError
                   THEN [db EXCEPT ![t.page] = Mutated(t, @, fresh)] ELSE db
          /\ nextId' = IF e = NoError /\ t.kind = "create"
                       THEN [nextId EXCEPT ![t.page] = @ + 1] ELSE nextId
          /\ notifications' = IF e = NoError /\ t.page # "users"
                              THEN addNotification(notifications,
                                          [page |-> t.page, kind |-> t.kind,
                                           name |-> t.val])
                              ELSE notifications
          /\ tasks' = [tasks EXCEPT ![i] =
                         AfterMutation([t EXCEPT !.id = newId], e, IdStr(newId))]
  /\ UNCHANGED <<reg, settings, logs, route, ui, search>>

\* A logger that writes is_error = false whatever the payload says.
logEntryDropsError(payload, i) ==
  [action |-> payload.action, table_name |-> payload.tableName,
   record_id |-> payload.recordId, is_error |-> FALSE, task |-> i]

\* logger.ts 23-33: the row logActivity builds; is_error: payload.isError || false.
\* `task` is the run that called, kept to tell the rows apart.
logEntry(payload, i) ==
  [action |-> payload.action, table_name |-> payload.tableName,
   record_id |-> payload.recordId,
   is_error |-> IF payload.isError = <<>> THEN FALSE ELSE payload.isError[1],
   task |-> i]

\* A logger that replaces the newest row instead of adding one.
logsInsertOverwrites(rows, entry) ==
  IF rows = <<>> THEN <<entry>> ELSE [rows EXCEPT ![Len(rows)] = entry]

\* supabase.from('logs').insert([logEntry])
logsInsert(rows, entry) == Append(rows, entry)

\* logActivity's insert is answered; an error goes to console.error only.
\* Then the handler goes on: with no mutation error, to fetchData.
logActivity(i) ==
  /\ tasks[i].pc = "log"
  /\ \E e \in Outcomes :
       LET t == tasks[i]
           t1 == IF e = NoError THEN t ELSE [t EXCEPT !.errs = @ \cup {SiteLog}]
           next == IF t.err = NoError /\ t.kind # "settingsSave"
                   THEN "items" ELSE "done"
       IN /\ logs' = IF e = NoError
                     THEN logsInsert(logs, logEntry(t.logged[Len(t.logged)], i))
                     ELSE logs
          /\ Advance(i, t1, next, ui)
  /\ UNCHANGED <<reg, db, nextId, settings, route, search, notifications>>

\* ------------------------------------------------------------------------
\* Settings
\* ------------------------------------------------------------------------
\* select ... .single(): the one row of `rows`, else error PGRST116.
SingleError(rows, e) ==
  IF e # NoError THEN e ELSE IF Cardinality(rows) = 1 THEN NoError ELSE PGRST116

SingleRow(rows) == CHOOSE r \in rows : TRUE

ByKey(k) == {r \in settings : r.key = k}
ById(n) == {r \in settings : r.id = n}

\* x || "" for a stored value.
OrEmpty(v) == v

\* Settings.fetchSettings (the mount effect): PGRST116 counts as "no row".
fetchSettings(i) ==
  /\ tasks[i].pc = "settings load"
  /\ \E e \in Outcomes :
       LET t == tasks[i]
           err == SingleError(ByKey(SETTING_KEY), e)
           t1 == IF err = NoError THEN t
                 ELSE IF err # PGRST116
                 THEN [t EXCEPT !.errs = @ \cup {SiteSettingsLoad},
                                !.shown = @ \cup {SiteSettingsLoad},
                                !.toasts = Append(@, "Erro ao buscar configuracoes")]
                 ELSE [t EXCEPT !.errs = @ \cup {SiteSettingsNoRow}]
           u1 == IF err = NoError /\ t.live
                 THEN [ui EXCEPT !.url = OrEmpty(SingleRow(ByKey(SETTING_KEY)).value)]
                 ELSE ui
       IN Advance(i, t1, "done", u1)
  /\ UNCHANGED <<reg, db, nextId, settings, logs, route, search, notifications>>

\* "Salvar Alteracoes" with a value that passes settingsSchema: onSubmit up
\* to its first await, the read of the old value.
onSubmit(value) ==
  /\ route = "settings"
  /\ Len(tasks) < MaxTasks
  /\ tasks' = Append(tasks, [NewTask("settingsSave", "settings", "settings preread")
                               EXCEPT !.val = value])
  /\ ui' = [ui EXCEPT !.url = value]
  /\ UNCHANGED <<reg, db, nextId, settings, logs, route, search, notifications>>

\* onSubmit: the old value arrives (fetchError is never looked at) and the
\* update request is sent.
onSubmitPreread(i) ==
  /\ tasks[i].pc = "settings preread"
  /\ \E e \in Outcomes :
       LET t == tasks[i]
           err == SingleError(ByKey(SETTING_KEY), e)
           t1 == IF err = NoError THEN t
                 ELSE [t EXCEPT !.errs = @ \cup {SiteSettingsPreread}]
           t2 == [t1 EXCEPT !.muts = Append(@, [op |-> "update",
                                                 table |-> "settings", id |-> 0])]
       IN Advance(i, t2, "settings update", ui)
  /\ UNCHANGED <<reg, db, nextId, settings, logs, route, search, notifications>>

\* update({value}).eq("key", SETTING_KEY): every row with the key.
SettingsUpdated(rows, value) ==
  {IF r.key = SETTING_KEY THEN [r EXCEPT !.value = value] ELSE r : r \in rows}

\* onSubmit: the update is answered; toast and logActivity.
onSubmitUpdate(i) ==
  /\ tasks[i].pc = "settings update"
  /\ \E e \in Outcomes :
       LET t == tasks[i] IN
       /\ settings' = IF e = NoError THEN SettingsUpdated(settings, t.val)
                      ELSE settings
       /\ tasks' = [tasks EXCEPT ![i] = AfterMutation(t, e, SETTING_KEY)]
  /\ UNCHANGED <<reg, db, nextId, logs, route, ui, search, notifications>>

\* ------------------------------------------------------------------------
\* Dashboard
\* ------------------------------------------------------------------------
RowCount(table) == Cardinality({i \in Ids : table[i] # NoRow})

\* queryFn, first await: the configuration items; an error is thrown and
\* useQuery shows "Erro ao carregar os dados do dashboard." while the page
\* is mounted. One run stands for the query with the attempts useQuery makes.
queryFn(i) ==
  /\ tasks[i].pc = "dash items"
  /\ \E e \in Outcomes :
       LET t == tasks[i] IN
       IF e # NoError
       THEN /\ tasks' = [tasks EXCEPT ![i] =
                           [t EXCEPT !.pc = "done",
                                     !.errs = @ \cup {SiteDashItems},
                                     !.thrown = @ \cup {SiteDashItems},
                                     !.caught = @ \cup {SiteDashItems},
                                     !.shown = IF t.live THEN @ \cup {SiteDashItems} ELSE @]]
            /\ ui' = QuerySettled(ui, t, "error", <<>>)
       ELSE /\ tasks' = [tasks EXCEPT ![i] =
                           [t EXCEPT !.pc = "dash incidents",
                                     !.acc = <<RowCount(db["configuration_items"])>>]]
            /\ ui' = ui
  /\ UNCHANGED <<reg, db, nextId, settings, logs, route, search, notifications>>

\* count ?? 0 of a count query: its error is not read.
CountOrZero(n, e) == IF e = NoError THEN n ELSE 0

\* queryFn, the three count queries: incidents, changes, users. The table
\* "changes" is not written by this code; it is taken to be empty.
queryFnCount(i) ==
  /\ tasks[i].pc \in {"dash incidents", "dash changes", "dash users"}
  /\ \E e \in Outcomes :
       LET t == tasks[i]
           n == CASE t.pc = "dash incidents" -> RowCount(db["incidents"])
                  [] t.pc = "dash changes" -> 0
                  [] OTHER -> RowCount(db["users"])
           next == CASE t.pc = "dash incidents" -> "dash changes"
                     [] t.pc = "dash changes" -> "dash users"
                     [] OTHER -> "done"
           acc == Append(t.acc, CountOrZero(n, e))
           t1 == [t EXCEPT !.pc = next, !.acc = acc,
                           !.errs = IF e = NoError THEN @ ELSE @ \cup {SiteDashCounts}]
       IN /\ tasks' = [tasks EXCEPT ![i] = t1]
          /\ ui' = IF next = "done"
                   THEN QuerySettled(ui, t, "success",
                                     [config_items_count |-> acc[1],
                                      incidents |-> acc[2],
                                      changes |-> acc[3],
                                      users |-> acc[4]])
                   ELSE ui
  /\ UNCHANGED <<reg, db, nextId, settings, logs, route, search, notifications>>

\* handleReportClick up to its first await. The button is rendered once the
\* query has data and is disabled while isSendingReport.
handleReportClick ==
  /\ route = "dashboard"
  /\ ui.query = "success"
  /\ ~ui.isSendingReport
  /\ NoDialogOpen
  /\ Len(tasks) < MaxTasks
  /\ ui' = [ui EXCEPT !.isSendingReport = TRUE]
  /\ tasks' = Append(tasks, [NewTask("report", "dashboard", "report settings")
                               EXCEPT !.toasts = <<"Gerando relatorio...">>])
  /\ UNCHANGED <<reg, db, nextId, settings, logs, route, search, notifications>>

\* A handler without the finally block: the flag is reset on success only.
reportFinallyOnSuccessOnly(t, u, failed) ==
  IF t.live /\ ~failed THEN [u EXCEPT !.isSendingReport = FALSE] ELSE u

\* finally { setIsSendingReport(false) }
reportFinally(t, u, failed) ==
  IF t.live THEN [u EXCEPT !.isSendingReport = FALSE] ELSE u

\* A handler that posts the request a second time.
reportSettingsReadPostsTwice(t, err, rows) ==
  IF err # NoError \/ SingleRow(rows).value = ""
  THEN [t EXCEPT !.pc = "done",
                 !.errs = IF err # NoError THEN @ \cup {SiteReportSettings} ELSE @,
                 !.thrown = IF err # NoError THEN @ \cup {SiteReportSettings} ELSE @,
                 !.caught = IF err # NoError THEN @ \cup {SiteReportSettings} ELSE @,
                 !.shown = IF err # NoError THEN @ \cup {SiteReportSettings} ELSE @,
                 !.toasts = Append(@, "Erro ao gerar relatorio")]
  ELSE [t EXCEPT !.pc = "report post", !.val = SingleRow(rows).value,
                 !.toasts = Append(@, "Enviando solicitacao..."),
                 !.posts = @ \o <<SingleRow(rows).value, SingleRow(rows).value>>]

\* handleReportClick after the settings read (.eq('id', 1).single()): a
\* missing configuration is thrown to the catch block, otherwise the POST to
\* the stored URL is sent.
reportSettingsRead(t, err, rows) ==
  IF err # NoError \/ SingleRow(rows).value = ""
  THEN [t EXCEPT !.pc = "done",
                 !.errs = IF err # NoError THEN @ \cup {SiteReportSettings} ELSE @,
                 !.thrown = IF err # NoError THEN @ \cup {SiteReportSettings} ELSE @,
                 !.caught = IF err # NoError THEN @ \cup {SiteReportSettings} ELSE @,
                 !.shown = IF err # NoError THEN @ \cup {SiteReportSettings} ELSE @,
                 !.toasts = Append(@, "Erro ao gerar relatorio")]
  ELSE [t EXCEPT !.pc = "report post", !.val = SingleRow(rows).value,
                 !.toasts = Append(@, "Enviando solicitacao..."),
                 !.posts = Append(@, SingleRow(rows).value)]

handleReportClickSettings(i) ==
  /\ tasks[i].pc = "report settings"
  /\ \E e \in Outcomes :
       LET t == tasks[i]
           err == SingleError(ById(1), e)
           t1 == reportSettingsRead(t, err, ById(1))
       IN /\ tasks' = [tasks EXCEPT ![i] = t1]
          /\ ui' = IF t1.pc = "done" THEN reportFinally(t, ui, TRUE) ELSE ui
  /\ UNCHANGED <<reg, db, nextId, settings, logs, route, search, notifications>>

\* What became of a POST: answered 2xx, answered otherwise, or rejected.
PostOutcomes == {"ok", "not ok", "rejected"}

\* handleReportClick after the webhook POST.
handleReportClickPost(i) ==
  /\ tasks[i].pc = "report post"
  /\ \E o \in PostOutcomes :
       LET t == tasks[i]
           t1 == IF o = "ok"
                 THEN [t EXCEPT !.pc = "done",
                                !.toasts = Append(@, "Relatorio enviado!")]
                 ELSE [t EXCEPT !.pc = "done",
                                !.errs = @ \cup {SiteReportPost},
                                !.thrown = @ \cup {SiteReportPost},
                                !.caught = @ \cup {SiteReportPost},
                                !.shown = @ \cup {SiteReportPost},
                                !.toasts = Append(@, "Erro ao gerar relatorio")]
       IN /\ tasks' = [tasks EXCEPT ![i] = t1]
          /\ ui' = reportFinally(t, ui, o # "ok")
  /\ UNCHANGED <<reg, db, nextId, settings, logs, route, search, notifications>>

\* ------------------------------------------------------------------------
\* "Registrar Servidor"
\* ------------------------------------------------------------------------
\* The literal URL in the fetch call of handleRegisterServer.
RegisterServerUrl == "http://host.docker.internal:5678/webhook/8118d081-38c7-464f-b2f2-c7dbab44d385"

\* handleRegisterServer up to its await: the POST is sent.
handleRegisterServer ==
  /\ route = "configuration_items"
  /\ NoDialogOpen
  /\ Len(tasks) < MaxTasks
  /\ tasks' = Append(tasks, [NewTask("registerServer", route, "register post")
                               EXCEPT !.posts = <<RegisterServerUrl>>])
  /\ UNCHANGED <<reg, db, nextId, settings, logs, route, ui, search, notifications>>

\* handleRegisterServer after the POST.
handleRegisterServerPost(i) ==
  /\ tasks[i].pc = "register post"
  /\ \E o \in PostOutcomes :
       LET t == tasks[i]
           title == CASE o = "ok" -> "Servidor registrado"
                      [] o = "not ok" -> "Erro"
                      [] OTHER -> "Erro de rede"
           t1 == [t EXCEPT !.pc = "done", !.toasts = Append(@, title),
                           !.errs = IF o = "ok" THEN @ ELSE @ \cup {SiteRegisterPost},
                           !.thrown = IF o = "rejected" THEN @ \cup {SiteRegisterPost} ELSE @,
                           !.caught = IF o = "rejected" THEN @ \cup {SiteRegisterPost} ELSE @,
                           !.shown = IF o = "ok" THEN @ ELSE @ \cup {SiteRegisterPost}]
       IN tasks' = [tasks EXCEPT ![i] = t1]
  /\ UNCHANGED <<reg, db, nextId, settings, logs, route, ui, search, notifications>>

\* ------------------------------------------------------------------------
\* Changes (system logs), Relationships, Reports, AI solution
\* ------------------------------------------------------------------------
RECURSIVE Reverse(_)
Reverse(q) == IF q = <<>> THEN <<>> ELSE Append(Reverse(Tail(q)), Head(q))

\* select("id, created_at, action, table_name"): the columns the page
\* reads of the row inserted k-th. The backend numbers the rows and stamps
\* them in the order of their insertion.
LogRow(r, k) == [id |-> k, created_at |-> k,
                 action |-> r.action, table_name |-> r.table_name]

\* fetchSystemLogs: newest first; an error is thrown and the page shows the
\* "Erro ao Carregar Logs" alert.
fetchSystemLogs(i) ==
  /\ tasks[i].pc = "system logs"
  /\ \E e \in Outcomes :
       LET t == tasks[i]
           t1 == IF e = NoError THEN t
                 ELSE [t EXCEPT !.errs = @ \cup {SiteSystemLogs},
                                !.thrown = @ \cup {SiteSystemLogs},
                                !.caught = @ \cup {SiteSystemLogs},
                                !.shown = IF t.live THEN @ \cup {SiteSystemLogs} ELSE @]
           u1 == IF e = NoError
                 THEN QuerySettled(ui, t, "success",
                                   Reverse([k \in 1..Len(logs) |-> LogRow(logs[k], k)]))
                 ELSE QuerySettled(ui, t, "error", <<>>)
       IN Advance(i, t1, "done", u1)
  /\ UNCHANGED <<reg, db, nextId, settings, logs, route, search, notifications>>

\* fetchRelationshipData: two selects, either error is thrown and the page
\* shows its error alert.
fetchRelationshipData(i) ==
  /\ tasks[i].pc \in {"rel items", "rel users"}
  /\ \E e \in Outcomes :
       LET t == tasks[i]
           next == IF e = NoError /\ t.pc = "rel items" THEN "rel users" ELSE "done"
           t1 == IF e = NoError THEN t
                 ELSE [t EXCEPT !.errs = @ \cup {SiteRelationships},
                                !.thrown = @ \cup {SiteRelationships},
                                !.caught = @ \cup {SiteRelationships},
                                !.shown = IF t.live THEN @ \cup {SiteRelationships} ELSE @]
           u1 == IF next # "done" THEN ui
                 ELSE IF e = NoError
                 THEN QuerySettled(ui, t, "success", ui.cache[t.page].data)
                 ELSE QuerySettled(ui, t, "error", <<>>)
       IN Advance(i, t1, next, u1)
  /\ UNCHANGED <<reg, db, nextId, settings, logs, route, search, notifications>>

\* created_at as a day-relative instant: 0 is before the local midnight of
\* today, StartOfToday and later are today.
Times == 0..MaxTime
StartOfToday == 1
BlankLine == "\n\n"

\* The rows of texto_relatorio: row k holds the text "p<k>".
PartText(k) == "p" \o ToString(k)
PartRows(times) == [k \in 1..Len(times) |->
                      [relatorio |-> PartText(k), created_at |-> times[k]]]

\* The same select without .gte("created_at", startOfToday).
selectRelatorioAnyDay(table, limit) ==
  LET all == 1..Len(table)
      n == IF Cardinality(all) < limit THEN Cardinality(all) ELSE limit
  IN {[a \in 1..n |-> table[q[a]].relatorio] :
        q \in {q \in [1..n -> all] :
                 /\ \A a, b \in 1..n : a # b => q[a] # q[b]
                 /\ \A a, b \in 1..n :
                      a < b => table[q[a]].created_at >= table[q[b]].created_at
                 /\ \A k \in all \ {q[a] : a \in 1..n} :
                      \A a \in 1..n : table[q[a]].created_at >= table[k].created_at}}

\* select("relatorio").gte("created_at", startOfToday)
\*   .order("created_at", {ascending: false}).limit(3): every array the
\* backend can answer with; rows of one created_at come in any order.
selectRelatorio(table, limit) ==
  LET today == {k \in 1..Len(table) : table[k].created_at >= StartOfToday}
      n == IF Cardinality(today) < limit THEN Cardinality(today) ELSE limit
  IN {[a \in 1..n |-> table[q[a]].relatorio] :
        q \in {q \in [1..n -> today] :
                 /\ \A a, b \in 1..n : a # b => q[a] # q[b]
                 /\ \A a, b \in 1..n :
                      a < b => table[q[a]].created_at >= table[q[b]].created_at
                 /\ \A k \in today \ {q[a] : a \in 1..n} :
                      \A a \in 1..n : table[q[a]].created_at >= table[k].created_at}}

\* reportParts.join(sep): the parts with the separator between neighbours.
RECURSIVE join(_, _)
join(parts, sep) ==
  IF Len(parts) <= 1 THEN parts
  ELSE <<Head(parts), sep>> \o join(Tail(parts), sep)

\* What the select of texto_relatorio answers, newest first, at most 3 rows:
\* computed from the table where the state holds one, else any of three
\* results.
ReportRows ==
  IF "texto_relatorio" \in DOMAIN db
  THEN selectRelatorio(db["texto_relatorio"], 3)
  ELSE {<<>>, <<"p1">>, <<"p3", "p2", "p1">>}

\* Reports.handleLoadReport up to its await.
handleLoadReport ==
  /\ route = "reports"
  /\ ~ui.isLoading
  /\ Len(tasks) < MaxTasks
  /\ ui' = [ui EXCEPT !.isLoading = TRUE, !.inline = "none", !.data = <<>>]
  /\ tasks' = Append(tasks, NewTask("loadReport", route, "report parts"))
  /\ UNCHANGED <<reg, db, nextId, settings, logs, route, search, notifications>>

\* A handleLoadReport that takes an empty result for a failure.
handleLoadReportPartsEmptyFails(i) ==
  /\ tasks[i].pc = "report parts"
  /\ \E e \in Outcomes, rows \in ReportRows :
       LET t == tasks[i]
           t1 == IF e = NoError THEN [t EXCEPT !.acc = rows]
                 ELSE [t EXCEPT !.err = e,
                                !.errs = @ \cup {SiteReport},
                                !.thrown = @ \cup {SiteReport},
                                !.caught = @ \cup {SiteReport},
                                !.shown = IF t.live THEN @ \cup {SiteReport} ELSE @]
           u1 == IF ~t.live THEN ui
                 ELSE IF e # NoError \/ Len(rows) = 0
                 THEN [ui EXCEPT !.isLoading = FALSE,
                                 !.inline = "Falha ao carregar o relatorio do Supabase."]
                 ELSE [ui EXCEPT !.isLoading = FALSE, !.data = join(Reverse(rows), BlankLine)]
       IN Advance(i, t1, "done", u1)
  /\ UNCHANGED <<reg, db, nextId, settings, logs, route, search, notifications>>

\* Reports.handleLoadReport after the select. The run keeps what the select
\* returned: its error, or its rows.
handleLoadReportParts(i) ==
  /\ tasks[i].pc = "report parts"
  /\ \E e \in Outcomes, rows \in ReportRows :
       LET t == tasks[i]
           t1 == IF e = NoError THEN [t EXCEPT !.acc = rows]
                 ELSE [t EXCEPT !.err = e,
                                !.errs = @ \cup {SiteReport},
                                !.thrown = @ \cup {SiteReport},
                                !.caught = @ \cup {SiteReport},
                                !.shown = IF t.live THEN @ \cup {SiteReport} ELSE @]
           u1 == IF ~t.live THEN ui
                 ELSE IF e # NoError
                 THEN [ui EXCEPT !.isLoading = FALSE,
                                 !.inline = "Falha ao carregar o relatorio do Supabase."]
                 ELSE IF Len(rows) > 0
                 THEN [ui EXCEPT !.isLoading = FALSE, !.data = join(Reverse(rows), BlankLine)]
                 ELSE [ui EXCEPT !.isLoading = FALSE,
                                 !.inline = "Nenhum relatorio encontrado para a data de hoje."]
       IN Advance(i, t1, "done", u1)
  /\ UNCHANGED <<reg, db, nextId, settings, logs, route, search, notifications>>

\* Incidents.handleShowSolution up to its await.
handleShowSolution ==
  /\ route = "incidents"
  /\ NoDialogOpen
  /\ Len(tasks) < MaxTasks
  /\ ui' = [ui EXCEPT !.isSolutionLoading = TRUE, !.inline = "none",
                      !.data = <<>>, !.isSolutionDialogOpen = TRUE]
  /\ tasks' = Append(tasks, NewTask("showSolution", route, "solution"))
  /\ UNCHANGED <<reg, db, nextId, settings, logs, route, search, notifications>>

\* Incidents.handleShowSolution after the select ... .single(): "no row"
\* sets the message, any other error is thrown to the catch block, which
\* sets the other message. The message is rendered inside the solution
\* dialog only, so it is seen if that dialog is open when it is set; set
\* with the dialog closed, it is cleared by the click that opens the dialog
\* again.
handleShowSolutionRead(i) ==
  /\ tasks[i].pc = "solution"
  /\ \E e \in Outcomes \cup {PGRST116} :
       LET t == tasks[i]
           t1 == IF e = NoError THEN t
                 ELSE [t EXCEPT !.err = e,
                                !.errs = @ \cup {SiteSolution},
                                !.thrown = IF e = PGRST116 THEN @ ELSE @ \cup {SiteSolution},
                                !.caught = IF e = PGRST116 THEN @ ELSE @ \cup {SiteSolution},
                                !.shown = IF t.live /\ ui.isSolutionDialogOpen
                                          THEN @ \cup {SiteSolution} ELSE @]
           u1 == IF ~t.live THEN ui
                 ELSE IF e = PGRST116
                 THEN [ui EXCEPT !.isSolutionLoading = FALSE,
                                 !.inline = "Nenhuma solucao de IA encontrada para hoje."]
                 ELSE IF e # NoError
                 THEN [ui EXCEPT !.isSolutionLoading = FALSE,
                                 !.inline = "Falha ao buscar a solucao. Tente novamente."]
                 ELSE [ui EXCEPT !.isSolutionLoading = FALSE, !.data = <<"solucao">>]
       IN Advance(i, t1, "done", u1)
  /\ UNCHANGED <<reg, db, nextId, settings, logs, route, search, notifications>>

\* The solution dialog is closed.
setIsSolutionDialogOpenFalse ==
  /\ route = "incidents"
  /\ ui.isSolutionDialogOpen
  /\ ui' = [ui EXCEPT !.isSolutionDialogOpen = FALSE]
  /\ UNCHANGED <<reg, db, nextId, settings, logs, route, search, notifications, tasks>>

\* ------------------------------------------------------------------------
\* The router, the search dialog, the notifications
\* ------------------------------------------------------------------------
\* The effect a page runs when it mounts; Reports runs none.
MountTask(p) ==
  CASE p \in Tables -> <<NewTask("fetch", p, "items")>>
    [] p = "dashboard" -> <<NewTask("query", p, "dash items")>>
    [] p = "settings" -> <<NewTask("fetchSettings", p, "settings load")>>
    [] p = "changes" -> <<NewTask("systemLogs", p, "system logs")>>
    [] p = "relationships" -> <<NewTask("relationships", p, "rel items")>>
    [] OTHER -> <<>>

\* The runs of the page that is left lose their component; SearchDialog
\* belongs to the layout and stays mounted.
Unmounted(ts) ==
  [k \in 1..Len(ts) |-> IF ts[k].kind = "search" THEN ts[k]
                         ELSE [ts[k] EXCEPT !.live = FALSE]]

\* Run t is the fetch of page p's query key and has not settled.
Fetching(t, p) == t.kind \in QueryKinds /\ t.page = p /\ t.pc # "done"

\* The page that mounts observes the fetch of its key that is under way.
Observed(ts, p) ==
  [k \in 1..Len(ts) |-> IF Fetching(ts[k], p) THEN [ts[k] EXCEPT !.live = TRUE]
                         ELSE ts[k]]

\* What a page starts when it mounts: its effect, or the fetch of its query
\* (staleTime 0: also when the cache has data) unless one is under way.
Mounted(ts, p) ==
  IF \E k \in 1..Len(ts) : Fetching(ts[k], p) THEN <<>> ELSE MountTask(p)

\* A fetch that starts for a key without data puts the key back to loading;
\* with data the status stays (the error of a failed refetch included).
FetchStarted(cache, ts, p) ==
  IF p \in QueryPages /\ Mounted(ts, p) # <<>> /\ ~cache[p].updated
  THEN [cache EXCEPT ![p].query = "loading"]
  ELSE cache

\* <Routes>: the page of the old route unmounts, that of the new one mounts
\* with fresh component state and renders what the cache holds for its key.
NavigateTo(p) ==
  /\ Len(tasks) + Len(Mounted(tasks, p)) <= MaxTasks
  /\ route' = p
  /\ ui' = useQuery([InitUi EXCEPT !.cache = FetchStarted(ui.cache, tasks, p)], p)
  /\ tasks' = Observed(Unmounted(tasks), p) \o Mounted(tasks, p)

\* gcTime: a key no page observes and no fetch is under way for is dropped
\* from the cache five minutes after its page unmounted.
queryRemoved(p) ==
  /\ p \in QueryPages
  /\ route # p
  /\ ui.cache[p] # NoQuery(p)
  /\ \A k \in TaskIds : ~Fetching(tasks[k], p)
  /\ ui' = [ui EXCEPT !.cache[p] = NoQuery(p)]
  /\ UNCHANGED <<reg, db, nextId, settings, logs, route, search, notifications, tasks>>

\* A sidebar link, the browser's back button or a typed URL.
Navigate(p) ==
  /\ p # route
  /\ NavigateTo(p)
  /\ UNCHANGED <<reg, db, nextId, settings, logs, search, notifications>>

\* use-search onOpen (the sidebar's search button); SearchDialog's effect
\* starts fetchSearchableData.
onOpen ==
  /\ NoDialogOpen
  /\ Len(tasks) < MaxTasks
  /\ search' = [search EXCEPT !.isOpen = TRUE]
  /\ tasks' = Append(tasks, NewTask("search", "layout", "search items"))
  /\ UNCHANGED <<reg, db, nextId, settings, logs, route, ui, notifications>>

\* data || []
OrEmptyList(rows, e) == IF e = NoError THEN rows ELSE EmptyList

\* fetchSearchableData: two selects whose errors are not read; both lists
\* are set after the second.
fetchSearchableData(i) ==
  /\ tasks[i].pc \in {"search items", "search users"}
  /\ \E e \in Outcomes :
       LET t == tasks[i]
           t1 == IF e = NoError THEN t ELSE [t EXCEPT !.errs = @ \cup {SiteSearch}]
       IN IF t.pc = "search items"
          THEN /\ tasks' = [tasks EXCEPT ![i] =
                              [t1 EXCEPT !.pc = "search users",
                                         !.acc = <<OrEmptyList(db["configuration_items"], e)>>]]
               /\ search' = search
          ELSE /\ tasks' = [tasks EXCEPT ![i] = [t1 EXCEPT !.pc = "done"]]
               /\ search' = [search EXCEPT !.items = t.acc[1],
                                           !.users = OrEmptyList(db["users"], e)]
  /\ UNCHANGED <<reg, db, nextId, settings, logs, route, ui, notifications>>

\* use-search onClose.
onClose ==
  /\ search.isOpen
  /\ search' = [search EXCEPT !.isOpen = FALSE]
  /\ UNCHANGED <<reg, db, nextId, settings, logs, route, ui, notifications, tasks>>

\* SearchDialog.handleSelect: navigate(path); onClose(). An item leads to
\* /configuration-items, a user to /users.
handleSelect(p) ==
  /\ search.isOpen
  /\ p \in {"configuration_items", "users"}
  /\ \E k \in Ids : (IF p = "users" THEN search.users ELSE search.items)[k] # NoRow
  /\ search' = [search EXCEPT !.isOpen = FALSE]
  /\ IF p = route THEN UNCHANGED <<route, ui, tasks>> ELSE NavigateTo(p)
  /\ UNCHANGED <<reg, db, nextId, settings, logs, notifications>>

\* The badge on the bell: rendered for a non-empty list only, and then it
\* shows notifications.length.
BellBadge(list) == IF Len(list) > 0 THEN <<Len(list)>> ELSE <<>>

\* NotificationsProvider.clearNotifications (the bell's "Limpar").
clearNotifications ==
  /\ notifications # <<>>
  /\ notifications' = <<>>
  /\ UNCHANGED <<reg, db, nextId, settings, logs, route, ui, search, tasks>>

\* ------------------------------------------------------------------------
\* Initial states and the two specifications
\* ------------------------------------------------------------------------
\* The tables when the application is opened: two records each.
InitTable == [i \in Ids |-> IF i = 1 THEN "va" ELSE IF i = 2 THEN "vb" ELSE NoRow]
InitDb == [t \in Tables |-> InitTable]
InitNextId == [t \in Tables |-> 3]

\* What the settings table can hold when the application is opened: nothing,
\* the webhook row as row 1 (with or without a URL), another row as row 1.
SettingsInits ==
  { {},
    {[id |-> 1, key |-> SETTING_KEY, value |-> UrlA]},
    {[id |-> 1, key |-> SETTING_KEY, value |-> ""]},
    {[id |-> 1, key |-> "theme", value |-> UrlB],
     [id |-> 2, key |-> SETTING_KEY, value |-> UrlA]} }

\* What the Settings form can submit: settingsSchema accepts a URL or "".
SettingValues == {"", UrlA, UrlB}

\* The log table outlives the session: it is empty or holds an earlier row
\* (task 0: written before the application was opened).
LogsInits ==
  { <<>>,
    <<[action |-> "INSERT", table_name |-> "users", record_id |-> "1",
       is_error |-> FALSE, task |-> 0]>> }

InitSearch == [isOpen |-> FALSE, items |-> EmptyList, users |-> EmptyList]

\* The application is opened at any route. The contents of the settings
\* table vary where the page opened is one that reads it.
Init ==
  /\ reg = <<>>
  /\ db = InitDb
  /\ nextId = InitNextId
  /\ route \in Pages
  /\ settings \in SettingsInits
  /\ route \notin {"dashboard", "settings"}
       => settings = {[id |-> 1, key |-> SETTING_KEY, value |-> UrlA]}
  /\ logs \in LogsInits
  /\ ui = InitUi
  /\ search = InitSearch
  /\ notifications = <<>>
  /\ tasks = MountTask(route)

\* The register-machine chain on its own: the page is ConfigurationItems.
InitHelper ==
  /\ reg = <<>>
  /\ db = InitDb
  /\ nextId = InitNextId
  /\ settings = {[id |-> 1, key |-> SETTING_KEY, value |-> UrlA]}
  /\ logs = <<>>
  /\ route = "configuration_items"
  /\ ui = InitUi
  /\ search = InitSearch
  /\ notifications = <<>>
  /\ tasks = <<>>

NextHelper ==
  \/ handleRegisterMachine
  \/ \E c \in Flows : registrarMaquina(c)
  \/ \E c \in Flows : ScriptCollect(c)
  \/ \E c \in Flows : ScriptPost(c)
  \/ \E c \in Flows : ScriptExit(c)
  \/ \E c \in Flows : ScriptAbort(c)
  \/ \E c \in Flows : ScriptExited(c)
  \/ \E c \in Flows : handleRegisterMachineResponse(c)
  \/ \E c \in Flows : handleRegisterMachineCatch(c)

SpecHelper == InitHelper /\ [][NextHelper]_vars

\* The steps of request c that need no user: the script's process runs to
\* its exit (the proviso of C23) and Node then calls exec's callback.
HelperStep(c) ==
  /\ c \in Flows
  /\ \/ ScriptCollect(c) \/ ScriptPost(c) \/ ScriptExit(c) \/ ScriptAbort(c)
     \/ ScriptExited(c)

SpecHelperLive == SpecHelper /\ \A c \in 1..MaxClicks : WF_vars(HelperStep(c))

Next ==
  \/ \E p \in Pages : Navigate(p)
  \/ \E p \in QueryPages : queryRemoved(p)
  \/ \E i \in TaskIds : fetchData(i)
  \/ \E i \in TaskIds : fetchDataUsers(i)
  \/ \E i \in TaskIds : fetchDataConfigItems(i)
  \/ handleCreate
  \/ \E id \in Ids : handleEdit(id)
  \/ \E id \in Ids : handleView(id)
  \/ \E id \in Ids : handleDelete(id)
  \/ setIsFormOpenFalse
  \/ setIsViewOpenFalse
  \/ setIsDeleteOpenFalse
  \/ \E v \in Vals : onFormSubmit(v)
  \/ onConfirmDelete
  \/ \E i \in TaskIds : mutationReturns(i)
  \/ \E i \in TaskIds : logActivity(i)
  \/ \E i \in TaskIds : fetchSettings(i)
  \/ \E v \in SettingValues : onSubmit(v)
  \/ \E i \in TaskIds : onSubmitPreread(i)
  \/ \E i \in TaskIds : onSubmitUpdate(i)
  \/ \E i \in TaskIds : queryFn(i)
  \/ \E i \in TaskIds : queryFnCount(i)
  \/ handleReportClick
  \/ \E i \in TaskIds : handleReportClickSettings(i)
  \/ \E i \in TaskIds : handleReportClickPost(i)
  \/ handleRegisterServer
  \/ \E i \in TaskIds : handleRegisterServerPost(i)
  \/ \E i \in TaskIds : fetchSystemLogs(i)
  \/ \E i \in TaskIds : fetchRelationshipData(i)
  \/ handleLoadReport
  \/ \E i \in TaskIds : handleLoadReportParts(i)
  \/ handleShowSolution
  \/ \E i \in TaskIds : handleShowSolutionRead(i)
  \/ setIsSolutionDialogOpenFalse
  \/ onOpen
  \/ \E i \in TaskIds : fetchSearchableData(i)
  \/ onClose
  \/ \E p \in Pages : handleSelect(p)
  \/ clearNotifications

Spec == Init /\ [][Next]_vars

\* ------------------------------------------------------------------------
\* The relationship graph (Relationships.tsx)
\* ------------------------------------------------------------------------
\* item_owner when null, and Map.get when the key is absent.
NullOwner == "null"
Undefined == [id |-> 0, name |-> "undefined"]

\* The names a user or an owner field can hold; "zoe" is no user's name.
UserNames == {"ana", "bia"}
OwnerNames == UserNames \cup {"zoe", NullOwner}

\* The rows of the two tables in the order the selects return them; the id
\* of a row is its position.
SeqsUpTo(S, n) == UNION {[1..k -> S] : k \in 0..n}
ItemRows(owners) == [k \in 1..Len(owners) |-> [id |-> k, item_owner |-> owners[k]]]
UserRows(names) == [k \in 1..Len(names) |-> [id |-> k, name |-> names[k]]]

\* .not('item_owner', 'is', null)
NotNullOwner(item) == item.item_owner # NullOwner

\* new Map(users.map(user => [user.name, user])).get(name): of the users of
\* one name the Map keeps the last.
usersByNameGet(users, name) ==
  LET S == {k \in 1..Len(users) : users[k].name = name}
  IN IF S = {} THEN Undefined
     ELSE users[CHOOSE k \in S : \A j \in S : j <= k]

Responsible(item) == item.responsible # Undefined

\* select(...).not('item_owner', 'is', null) of configuration_items.
selectItems(itemsTable) == SelectSeq(itemsTable, NotNullOwner)

\* fetchRelationshipData 38-47: the join of the rows the two selects
\* returned.
itemsWithResponsibles(items, users) ==
  LET usersTable == users
      mapped == [k \in 1..Len(items) |->
                   [id |-> items[k].id, item_owner |-> items[k].item_owner,
                    responsible |-> usersByNameGet(usersTable, items[k].item_owner)]]
  IN SelectSeq(mapped, Responsible)

\* A layout that adds the owner's node for every item.
UserNodeAlways(acc, responsible) ==
  [acc EXCEPT !.userMap = [u \in DOMAIN @ \cup {responsible.id} |->
                             IF u \in DOMAIN @ THEN @[u] ELSE acc.userY],
              !.nodes = Append(@, [id |-> <<"user", responsible.id>>,
                                   type |-> "userNode", x |-> 50, y |-> acc.userY,
                                   name |-> responsible.name, responsibleId |-> 0]),
              !.userY = @ + 250]

\* useMemo 119-133: if (!userMap.has(responsible.id)) { ... }
UserNode(acc, responsible) ==
  IF responsible.id \in DOMAIN acc.userMap THEN acc
  ELSE [acc EXCEPT !.userMap = [u \in DOMAIN @ \cup {responsible.id} |->
                                  IF u \in DOMAIN @ THEN @[u] ELSE acc.userY],
                   !.nodes = Append(@, [id |-> <<"user", responsible.id>>,
                                        type |-> "userNode", x |-> 50, y |-> acc.userY,
                                        name |-> responsible.name, responsibleId |-> 0]),
                   !.userY = @ + 250]

\* A layout that puts every CI node in the first column of its owner's row.
CiNodeFirstColumn(acc, item) ==
  LET responsible == item.responsible
  IN [acc EXCEPT !.nodes = Append(@, [id |-> <<"ci", item.id>>, type |-> "ciNode",
                                      x |-> 450,
                                      y |-> acc.userMap[responsible.id],
                                      name |-> "", responsibleId |-> responsible.id]),
                 !.edges = Append(@, [id |-> <<"edge", responsible.id, item.id>>,
                                      source |-> <<"user", responsible.id>>,
                                      target |-> <<"ci", item.id>>])]

\* useMemo 135-165: the CI node and its edge.
CiNode(acc, item) ==
  LET responsible == item.responsible
      ciCountForUser == Cardinality({k \in 1..Len(acc.nodes) :
                                       /\ acc.nodes[k].type = "ciNode"
                                       /\ acc.nodes[k].responsibleId = responsible.id})
  IN [acc EXCEPT !.nodes = Append(@, [id |-> <<"ci", item.id>>, type |-> "ciNode",
                                      x |-> 450 + ciCountForUser * 280,
                                      y |-> acc.userMap[responsible.id],
                                      name |-> "", responsibleId |-> responsible.id]),
                 !.edges = Append(@, [id |-> <<"edge", responsible.id, item.id>>,
                                      source |-> <<"user", responsible.id>>,
                                      target |-> <<"ci", item.id>>])]

\* useMemo 105-167: items.forEach from empty nodes and edges.
RECURSIVE forEachItem(_, _)
forEachItem(acc, items) ==
  IF items = <<>> THEN acc
  ELSE forEachItem(CiNode(UserNode(acc, Head(items).responsible), Head(items)),
                   Tail(items))

useMemo(items) ==
  LET acc == forEachItem([nodes |-> <<>>, edges |-> <<>>, userMap |-> <<>>,
                          userY |-> 0], items)
  IN [nodes |-> acc.nodes, edges |-> acc.edges]

\* The page is opened on tables of any content within the bounds.
InitGraph ==
  /\ reg = <<>>
  /\ \E owners \in SeqsUpTo(OwnerNames, MaxItems), names \in SeqsUpTo(UserNames, MaxUsers) :
       db = [configuration_items |-> ItemRows(owners), users |-> UserRows(names),
             incidents |-> <<>>]
  /\ nextId = InitNextId
  /\ settings = {}
  /\ logs = <<>>
  /\ route = "relationships"
  /\ ui = InitUi
  /\ search = InitSearch
  /\ notifications = <<>>
  /\ tasks = MountTask("relationships")

\* fetchRelationshipData, first await: the select of configuration_items is
\* answered. An error is thrown and the page shows its alert; else the run
\* holds the rows. `val` keeps the tables as they were when the select was
\* executed, for the properties.
fetchRelationshipItems(i) ==
  /\ tasks[i].pc = "rel items"
  /\ \E e \in Outcomes :
       LET t == tasks[i]
           t1 == IF e = NoError
                 THEN [t EXCEPT !.acc = <<selectItems(db["configuration_items"])>>,
                                !.val = db]
                 ELSE [t EXCEPT !.errs = @ \cup {SiteRelationships},
                                !.thrown = @ \cup {SiteRelationships},
                                !.caught = @ \cup {SiteRelationships},
                                !.shown = IF t.live THEN @ \cup {SiteRelationships} ELSE @]
           u1 == IF e = NoError THEN ui ELSE QuerySettled(ui, t, "error", <<>>)
       IN Advance(i, t1, IF e = NoError THEN "rel users" ELSE "done", u1)
  /\ UNCHANGED <<reg, db, nextId, settings, logs, route, search, notifications>>

\* fetchRelationshipData, second await: the select of users is answered. The
\* rows are joined and useMemo lays the result out when the page renders.
fetchRelationshipUsers(i) ==
  /\ tasks[i].pc = "rel users"
  /\ \E e \in Outcomes :
       LET t == tasks[i]
           t1 == IF e = NoError
                 THEN [t EXCEPT !.acc = Append(@, db["users"])]
                 ELSE [t EXCEPT !.errs = @ \cup {SiteRelationships},
                                !.thrown = @ \cup {SiteRelationships},
                                !.caught = @ \cup {SiteRelationships},
                                !.shown = IF t.live THEN @ \cup {SiteRelationships} ELSE @]
           u1 == IF e = NoError
                 THEN QuerySettled(ui, t, "success",
                                   itemsWithResponsibles(t.acc[1], db["users"]))
                 ELSE QuerySettled(ui, t, "error", <<>>)
       IN Advance(i, t1, "done", u1)
  /\ UNCHANGED <<reg, db, nextId, settings, logs, route, search, notifications>>

\* Another client of the backend writes while the page waits for its second
\* select: it updates the owner of one item, renames one user or inserts a
\* user; one write per table. (A write before the first select is an initial
\* state; one after the second is not seen by the page.)
tablesChange ==
  \E i \in TaskIds :
    /\ tasks[i].pc = "rel users"
    /\ \/ /\ db["configuration_items"] = tasks[i].val["configuration_items"]
          /\ \E k \in 1..Len(db["configuration_items"]), owner \in OwnerNames :
               db' = [db EXCEPT !["configuration_items"][k].item_owner = owner]
       \/ /\ db["users"] = tasks[i].val["users"]
          /\ \/ \E k \in 1..Len(db["users"]), name \in UserNames :
                  db' = [db EXCEPT !["users"][k].name = name]
             \/ \E name \in UserNames :
                  /\ Len(db["users"]) < MaxUsers
                  /\ db' = [db EXCEPT !["users"] =
                              Append(@, [id |-> Len(@) + 1, name |-> name])]
    /\ db' # db
    /\ UNCHANGED <<reg, nextId, settings, logs, route, ui, search, notifications, tasks>>

NextGraph ==
  \/ \E i \in TaskIds : fetchRelationshipItems(i)
  \/ \E i \in TaskIds : fetchRelationshipUsers(i)
  \/ tablesChange

SpecGraph == InitGraph /\ [][NextGraph]_vars

\* ------------------------------------------------------------------------
\* The create/edit forms of ConfigurationItems.tsx and Incidents.tsx: the
\* values react-hook-form holds, the zod schemas that decide whether
\* handleSubmit calls onFormSubmit, and the request a submit sends.
\* ------------------------------------------------------------------------
\* A JavaScript value held by a form field: a string, null or undefined (a
\* key the object does not have).
Str(s) == [t |-> "string", s |-> s]
JsNull == [t |-> "null", s |-> ""]
JsUndefined == [t |-> "undefined", s |-> ""]

\* z.string(), z.string().min(n), z.string().optional(),
\* z.string().uuid().nullable().optional()
zString(v) == v.t = "string"
zStringMin(v, n) == zString(v) /\ Len(v.s) >= n
zStringOptional(v) == v = JsUndefined \/ zString(v)
Uuids == {"3f2c1a9e-5b7d-4c8e-9a1f-0d6e2b4c8a10"}
zUuidNullableOptional(v) ==
  v = JsUndefined \/ v = JsNull \/ (zString(v) /\ v.s \in Uuids)

\* itemSchema 47-61, the attributes shown for a Servidor (437-452) and for a
\* Workstation (453-462).
ServidorAttributes ==
  {"cpu_core", "cpu_threads", "ip_address", "host_name", "kernel_version",
   "free_memory_gb", "total_memory_gb", "used_memory_percentage", "os",
   "storage_available", "storage_total", "current_cpu_usage"}
WorkstationAttributes ==
  {"os", "total_memory_gb", "ip_address", "licenca_windows", "status_licenca",
   "data_expiracao"}
OptionalAttributes == ServidorAttributes \cup WorkstationAttributes

ItemFields ==
  {"name", "item_type", "status", "environment", "item_owner"} \cup OptionalAttributes
IncidentFields ==
  {"title", "description", "status", "priority", "assigned_to_user_id",
   "related_ci_id"}
FormFields(page) == IF page = "incidents" THEN IncidentFields ELSE ItemFields

\* The SelectItem values of the two forms.
SelectOptions(page, f) ==
  CASE page = "configuration_items" /\ f = "item_type" ->
         {"Servidor", "Workstation", "Aplicação", "Website", "Database"}
    [] page = "configuration_items" /\ f = "status" ->
         {"Ativo", "Inativo", "Em Manutenção", "Desativado"}
    [] page = "configuration_items" /\ f = "item_owner" -> UserNames
    [] page = "incidents" /\ f = "status" ->
         {"Aberto", "Em Andamento", "Resolvido", "Fechado"}
    [] page = "incidents" /\ f = "priority" ->
         {"Baixa", "Média", "Alta", "Crítica"}
    [] OTHER -> Uuids

\* itemSchema and incidentSchema, field by field.
schemaField(page, f, v) ==
  IF page = "incidents"
  THEN CASE f = "title" -> zStringMin(v, 3)
         [] f = "description" -> zStringOptional(v)
         [] f \in {"status", "priority"} -> zString(v)
         [] OTHER -> zUuidNullableOptional(v)
  ELSE CASE f = "name" -> zStringMin(v, 3)
         [] f \in {"item_type", "status", "environment", "item_owner"} ->
              zStringMin(v, 1)
         [] OTHER -> zStringOptional(v)

itemSchema(values) == \A f \in ItemFields : schemaField("configuration_items", f, values[f])
incidentSchema(values) == \A f \in IncidentFields : schemaField("incidents", f, values[f])
zodResolver(page, values) ==
  IF page = "incidents" THEN incidentSchema(values) ELSE itemSchema(values)

\* form.reset(...) of handleCreate; a key the object lacks is undefined.
CreateValues(page) ==
  IF page = "incidents"
  THEN [f \in IncidentFields |->
          CASE f = "status" -> Str("Aberto")
            [] f = "priority" -> Str("Baixa")
            [] f \in {"title", "description"} -> Str("")
            [] OTHER -> JsNull]
  ELSE [f \in ItemFields |->
          CASE f = "status" -> Str("Ativo")
            [] f = "environment" -> Str("Produção")
            [] f \in {"name", "item_type", "item_owner"} -> Str("")
            [] OTHER -> JsUndefined]

\* The record the table holds when the page is opened, as select("*")
\* returns it: a column without a value is null. The record was written by
\* the form or by another writer of the table (the registration workflow),
\* whose type and status need not be among the form's options.
StoredItems ==
  {[f \in ItemFields |->
      CASE f = "name" -> Str("srv01")
        [] f = "item_type" -> Str(type)
        [] f = "status" -> Str(status)
        [] f = "environment" -> Str("Produção")
        [] f = "item_owner" -> Str("ana")
        [] OTHER -> IF f \in filled THEN Str("4") ELSE JsNull] :
     type \in {"Aplicação", "Notebook"},
     status \in {"Ativo"},
     filled \in {{}, OptionalAttributes}}
StoredIncidents ==
  {[f \in IncidentFields |->
      CASE f = "title" -> Str("rede fora")
        [] f = "description" -> description
        [] f = "status" -> Str(status)
        [] f = "priority" -> Str(priority)
        [] f = "assigned_to_user_id" -> assigned
        [] OTHER -> JsNull] :
     description \in {JsNull, Str("")},
     status \in {"Aberto", "Pendente"},
     priority \in {"Baixa"},
     assigned \in {JsNull}}
StoredRecords(page) == IF page = "incidents" THEN StoredIncidents ELSE StoredItems

\* What the user can put into a field: an option of its Select, or a text
\* typed into its Input; the attribute inputs are rendered for their type.
Typed(page, f) ==
  CASE f \in {"name", "title"} -> {"ab", "abc"}
    [] f = "environment" -> {""}
    [] f = "description" -> {"x"}
    [] OTHER -> {"8"}
\* The options the user picks among, and the attribute inputs the user
\* types into: one of each type.
Picked == {"Servidor", "Workstation", "bia"}
TypedAttributes == {"cpu_core", "licenca_windows"}
Inputs(page, values, f) ==
  IF f \in {"item_type", "status", "priority", "item_owner", "assigned_to_user_id",
            "related_ci_id"}
  THEN SelectOptions(page, f) \cap Picked
  ELSE IF f \in OptionalAttributes
       THEN IF /\ f \in TypedAttributes
               /\ \/ f \in ServidorAttributes /\ values["item_type"] = Str("Servidor")
                  \/ f \in WorkstationAttributes /\ values["item_type"] = Str("Workstation")
            THEN Typed(page, f) ELSE {}
       ELSE Typed(page, f)

\* JSON.stringify drops the keys whose value is undefined: an insert leaves
\* their columns null, an update leaves them as they are.
Inserted(values) ==
  [f \in DOMAIN values |-> IF values[f] = JsUndefined THEN JsNull ELSE values[f]]
Updated(row, values) ==
  [f \in DOMAIN row |-> IF values[f] = JsUndefined THEN row[f] ELSE values[f]]

InitFormUi ==
  [isFormOpen |-> FALSE, dialogMode |-> "create", selected |-> 0, values |-> <<>>,
   errors |-> {}, inputs |-> 0, submits |-> 0, items |-> <<>>,
   isSubmitted |-> FALSE]

\* One of the two pages is opened on a table holding one record and has
\* fetched its list.
InitForm ==
  /\ reg = <<>>
  /\ \E page \in {"configuration_items", "incidents"} :
       /\ route = page
       /\ \E r \in StoredRecords(page) : db = [t \in {page} |-> <<r>>]
  /\ nextId = InitNextId
  /\ settings = {}
  /\ logs = <<>>
  /\ ui = [InitFormUi EXCEPT !.items = Reverse(db[route])]
  /\ search = InitSearch
  /\ notifications = <<>>
  /\ tasks = <<>>

FormUnchanged == UNCHANGED <<reg, nextId, settings, route, search>>

\* handleCreate: form.reset(defaults), the dialog opens in create mode.
FormCreate ==
  /\ ~ui.isFormOpen
  /\ ui' = [ui EXCEPT !.isFormOpen = TRUE, !.dialogMode = "create",
                      !.values = CreateValues(route), !.errors = {},
                      !.isSubmitted = FALSE]
  /\ UNCHANGED <<db, logs, tasks, notifications>>
  /\ FormUnchanged

\* handleEdit: form.reset(item) with the record as the list holds it. The
\* list is ordered by created_at descending and no row is deleted here, so
\* the row at position p of a list of n rows is the one inserted (n+1-p)-th.
FormEdit ==
  /\ ~ui.isFormOpen
  /\ \E p \in 1..Len(ui.items) :
       ui' = [ui EXCEPT !.isFormOpen = TRUE, !.dialogMode = "edit",
                        !.selected = Len(ui.items) + 1 - p,
                        !.values = ui.items[p], !.errors = {},
                        !.isSubmitted = FALSE]
  /\ UNCHANGED <<db, logs, tasks, notifications>>
  /\ FormUnchanged

\* field.onChange: the user selects an option or types a text. Once a
\* submit has been completed (formState.isSubmitted) the changed field is
\* validated again; before that the errors stay as they are.
FormInput ==
  /\ ui.isFormOpen
  /\ ui.inputs < MaxInputs
  /\ \E f \in FormFields(route) : \E s \in Inputs(route, ui.values, f) :
       ui' = [ui EXCEPT !.values[f] = Str(s), !.inputs = @ + 1,
                        !.errors = IF ~ui.isSubmitted THEN @
                                   ELSE IF schemaField(route, f, Str(s))
                                   THEN @ \ {f} ELSE @ \cup {f}]
  /\ UNCHANGED <<db, logs, tasks, notifications>>
  /\ FormUnchanged

\* <Dialog onOpenChange={setIsFormOpen}>: Cancelar, Escape or a click outside
\* closes the dialog; the form keeps its values until the next reset.
FormClose ==
  /\ ui.isFormOpen
  /\ ui' = [ui EXCEPT !.isFormOpen = FALSE]
  /\ UNCHANGED <<db, logs, tasks, notifications>>
  /\ FormUnchanged

\* form.handleSubmit(onFormSubmit): the resolver validates the values; with
\* errors they are shown, onFormSubmit is not called and the submit is
\* complete (isSubmitted); without errors onFormSubmit is called with the
\* parsed values and sends its insert or update, and the submit is complete
\* only when onFormSubmit has returned. The dialog stays open while the
\* request is under way, so Salvar can be clicked again: MaxSubmits attempts
\* and one more for each request sent, MaxTasks requests at most.
FormSubmit ==
  /\ ui.isFormOpen
  /\ ui.submits < MaxSubmits + Len(tasks)
  /\ Len(tasks) < MaxTasks
  /\ LET errors == {f \in FormFields(route) : ~schemaField(route, f, ui.values[f])} IN
     /\ ui' = [ui EXCEPT !.errors = errors, !.submits = @ + 1,
                         !.isSubmitted = @ \/ errors # {}]
     /\ tasks' = IF zodResolver(route, ui.values)
                 THEN Append(tasks, [kind |-> ui.dialogMode, page |-> route,
                                     id |-> ui.selected, values |-> ui.values,
                                     pc |-> "mutate", err |-> NoError])
                 ELSE tasks
  /\ UNCHANGED <<db, logs, notifications>>
  /\ FormUnchanged

\* A run that has returned: of its closure nothing is read again.
Finished(t) == [t EXCEPT !.pc = "done", !.id = 0, !.values = <<>>]

\* The field addNotification names: data.name, or data.title of an incident.
NameField(page) == IF page = "incidents" THEN "title" ELSE "name"

\* onFormSubmit after its first await: the insert or update is answered; on
\* success the toast and addNotification, then logActivity is called and
\* waits for auth.getUser(). Of the submitted data the run reads only the
\* id from here on.
FormAnswer ==
  \E i \in 1..Len(tasks) : \E e \in Outcomes :
    LET t == tasks[i]
        row == IF t.kind = "create" THEN Inserted(t.values)
               ELSE Updated(db[route][t.id], t.values)
        newId == IF t.kind # "create" THEN t.id
                 ELSE IF e = NoError THEN Len(db[route]) + 1 ELSE 0
    IN /\ t.pc = "mutate"
       /\ tasks' = [tasks EXCEPT ![i].pc = "getUser", ![i].err = e, ![i].id = newId,
                                 ![i].values = <<>>]
       /\ db' = IF e # NoError THEN db
                ELSE IF t.kind = "create"
                     THEN [db EXCEPT ![route] = Append(@, row)]
                     ELSE [db EXCEPT ![route][t.id] = row]
       /\ notifications' = IF e = NoError
                           THEN addNotification(notifications,
                                                [page |-> route, kind |-> t.kind,
                                                 name |-> row[NameField(route)].s])
                           ELSE notifications
       /\ UNCHANGED <<logs, ui>>
       /\ FormUnchanged

\* logActivity, first await: auth.getUser() is answered and the insert of
\* the log row is sent.
FormGetUser ==
  \E i \in 1..Len(tasks) :
    /\ tasks[i].pc = "getUser"
    /\ tasks' = [tasks EXCEPT ![i].pc = "log"]
    /\ UNCHANGED <<db, logs, ui, notifications>>
    /\ FormUnchanged

\* logActivity, second await: the insert into logs is answered (an error is
\* written to the console only). After a failed mutation onFormSubmit
\* returns and handleSubmit marks the form submitted; after a successful one
\* it calls fetchData.
FormLogged ==
  \E i \in 1..Len(tasks) : \E e \in Outcomes :
    LET t == tasks[i] IN
    /\ t.pc = "log"
    /\ logs' = IF e # NoError THEN logs
               ELSE Append(logs, [action |-> ActionOf(t.kind), table_name |-> route,
                                  record_id |-> IdStr(t.id),
                                  is_error |-> t.err # NoError])
    /\ tasks' = [tasks EXCEPT ![i] = IF t.err = NoError THEN [t EXCEPT !.pc = "items"]
                                     ELSE Finished(t)]
    /\ ui' = IF t.err = NoError THEN ui ELSE [ui EXCEPT !.isSubmitted = TRUE]
    /\ UNCHANGED <<db, notifications>>
    /\ FormUnchanged

\* fetchData, one select after the other: the page's table (setItems on
\* success), the users, and on Incidents the configuration items; an error
\* raises a toast at most. After the last one, setIsFormOpen(false);
\* onFormSubmit returns and handleSubmit marks the form submitted.
FormFetched ==
  \E i \in 1..Len(tasks) : \E e \in Outcomes :
    LET t == tasks[i]
        next == IF t.pc = "items" THEN AfterItems(route)
                ELSE IF t.pc = "owners" THEN AfterOwners(route) ELSE "done"
        u1 == IF t.pc = "items" /\ e = NoError
              THEN [ui EXCEPT !.items = Reverse(db[route])]
              ELSE ui
    IN /\ t.pc \in {"items", "owners", "cis"}
       /\ tasks' = [tasks EXCEPT ![i] = IF next = "done" THEN Finished(t)
                                        ELSE [t EXCEPT !.pc = next]]
       /\ ui' = IF next = "done"
                THEN [u1 EXCEPT !.isFormOpen = FALSE, !.isSubmitted = TRUE]
                ELSE u1
       /\ UNCHANGED <<db, logs, notifications>>
       /\ FormUnchanged

NextForm ==
  \/ FormCreate \/ FormEdit \/ FormInput \/ FormClose \/ FormSubmit
  \/ FormAnswer \/ FormGetUser \/ FormLogged \/ FormFetched

SpecForm == InitForm /\ [][NextForm]_vars

\* ------------------------------------------------------------------------
\* The Dashboard while a mutation sent from another page is still in
\* flight: the runs only, no user action.
\* ------------------------------------------------------------------------
\* The user submitted a create or confirmed a delete on ConfigurationItems
\* or Incidents and went to the Dashboard before the request was answered.
\* The list fetch of the page left is over.
InitLive ==
  /\ reg = <<>>
  /\ db = InitDb
  /\ nextId = InitNextId
  /\ settings = {[id |-> 1, key |-> SETTING_KEY, value |-> UrlA]}
  /\ logs \in LogsInits
  /\ route = "dashboard"
  /\ ui = InitUi
  /\ search = InitSearch
  /\ notifications = <<>>
  /\ \E page \in {"configuration_items", "incidents"} :
       \E run \in {onFormSubmitRequest("create", page, NoSelection, v,
                                        handleCreateUi(InitUi)) : v \in Vals}
                   \cup {onConfirmDeleteRequest(page, [id |-> k, val |-> InitTable[k]],
                                                [InitUi EXCEPT !.deleteFor = k]) :
                           k \in {k \in Ids : InitTable[k] # NoRow}} :
         tasks = Unmounted(<<NewTask("fetch", page, "done"), run>>)
                   \o MountTask("dashboard")

NextLive ==
  \/ \E i \in TaskIds : mutationReturns(i)
  \/ \E i \in TaskIds : logActivity(i)
  \/ \E i \in TaskIds : fetchData(i)
  \/ \E i \in TaskIds : fetchDataUsers(i)
  \/ \E i \in TaskIds : fetchDataConfigItems(i)
  \/ \E i \in TaskIds : queryFn(i)
  \/ \E i \in TaskIds : queryFnCount(i)

\* Every request is answered in the end (with a result or with an error), so
\* a run that waits at an await takes its next step.
SpecLive == InitLive /\ [][NextLive]_vars /\ WF_vars(NextLive)

\* ------------------------------------------------------------------------
\* A record page with its lists loaded: overlapping submits, and responses
\* that arrive in another order than the backend executed the requests.
\* ------------------------------------------------------------------------
\* ConfigurationItems, Incidents or Users after its first fetchData, or
\* Settings after its fetchSettings; the finished run of that fetch is left
\* out of `tasks`.
InitCrud ==
  /\ reg = <<>>
  /\ db = InitDb
  /\ nextId = InitNextId
  /\ settings = {[id |-> 1, key |-> SETTING_KEY, value |-> UrlA]}
  /\ logs = <<>>
  /\ route \in Tables \cup {"settings"}
  /\ ui = IF route = "settings"
          THEN [InitUi EXCEPT !.url = UrlA]
          ELSE [InitUi EXCEPT !.items = db[route],
                              !.filteredItems = db[route],
                              !.users = IF route = "users" THEN @ ELSE db["users"],
                              !.cis = IF route = "incidents"
                                      THEN db["configuration_items"] ELSE @]
  /\ search = InitSearch
  /\ notifications = <<>>
  /\ tasks = <<>>

\* The dialogs are left by a submit only.
NextCrud ==
  \/ handleCreate
  \/ \E id \in Ids : handleEdit(id)
  \/ \E id \in Ids : handleDelete(id)
  \/ \E v \in Vals : onFormSubmit(v)
  \/ onConfirmDelete
  \/ \E i \in TaskIds : mutationReturns(i)
  \/ \E i \in TaskIds : logActivity(i)
  \/ \E i \in TaskIds : selectServed(i)
  \/ \E i \in TaskIds : fetchData(i)
  \/ \E i \in TaskIds : fetchDataUsers(i)
  \/ \E i \in TaskIds : fetchDataConfigItems(i)
  \/ \E v \in SettingValues : onSubmit(v)
  \/ \E i \in TaskIds : onSubmitPreread(i)
  \/ \E i \in TaskIds : onSubmitUpdate(i)
  \/ clearNotifications

SpecCrud == InitCrud /\ [][NextCrud]_vars

\* ------------------------------------------------------------------------
\* The Dashboard's report button
\* ------------------------------------------------------------------------
\* The Dashboard is mounted and its query has data. The user may have clicked
\* the button on an earlier visit of the page and left before the settings
\* read was answered: that run goes on without its component, and the page
\* mounted now starts with isSendingReport = false (useState(false)).
InitReport ==
  /\ reg = <<>>
  /\ db = InitDb
  /\ nextId = InitNextId
  /\ settings \in SettingsInits
  /\ logs \in LogsInits
  /\ route = "dashboard"
  /\ ui = useQuery([InitUi EXCEPT !.cache["dashboard"] =
                       [query |-> "success",
                        data |-> [config_items_count |-> RowCount(db["configuration_items"]),
                                  incidents |-> RowCount(db["incidents"]),
                                  changes |-> 0,
                                  users |-> RowCount(db["users"])],
                        updated |-> TRUE]], "dashboard")
  /\ search = InitSearch
  /\ notifications = <<>>
  /\ tasks \in {<<>>,
                Unmounted(<<[NewTask("report", "dashboard", "report settings")
                               EXCEPT !.toasts = <<"Gerando relatorio...">>]>>)}

NextReport ==
  \/ handleReportClick
  \/ \E i \in TaskIds : handleReportClickSettings(i)
  \/ \E i \in TaskIds : handleReportClickPost(i)

SpecReport == InitReport /\ [][NextReport]_vars

\* ------------------------------------------------------------------------
\* The Dashboard's cards over incidents of any status
\* ------------------------------------------------------------------------
\* Two of the statuses the incident form offers; the content of an incidents
\* row is its status here.
IncidentStatuses == {"Aberto", "Resolvido"}

\* The Dashboard is opened on an incidents table of any content.
InitDash ==
  /\ reg = <<>>
  /\ IncidentStatuses \subseteq SelectOptions("incidents", "status")
  /\ \E rows \in [Ids -> IncidentStatuses \cup {NoRow}] :
       db = [InitDb EXCEPT !["incidents"] = rows]
  /\ nextId = InitNextId
  /\ settings = {[id |-> 1, key |-> SETTING_KEY, value |-> UrlA]}
  /\ logs = <<>>
  /\ route = "dashboard"
  /\ ui = InitUi
  /\ search = InitSearch
  /\ notifications = <<>>
  /\ tasks = MountTask("dashboard")

NextDash ==
  \/ \E i \in TaskIds : queryFn(i)
  \/ \E i \in TaskIds : queryFnCount(i)

SpecDash == InitDash /\ [][NextDash]_vars

\* ------------------------------------------------------------------------
\* The Reports page over a table of report parts
\* ------------------------------------------------------------------------
\* The page is opened on a texto_relatorio of any content within the bounds.
InitParts ==
  /\ reg = <<>>
  /\ \E times \in SeqsUpTo(Times, MaxParts) :
       db = [t \in Tables \cup {"texto_relatorio"} |->
               IF t = "texto_relatorio" THEN PartRows(times) ELSE InitTable]
  /\ nextId = InitNextId
  /\ settings = {[id |-> 1, key |-> SETTING_KEY, value |-> UrlA]}
  /\ logs = <<>>
  /\ route = "reports"
  /\ ui = InitUi
  /\ search = InitSearch
  /\ notifications = <<>>
  /\ tasks = <<>>

NextParts ==
  \/ handleLoadReport
  \/ \E i \in TaskIds : handleLoadReportParts(i)

SpecParts == InitParts /\ [][NextParts]_vars

\* ------------------------------------------------------------------------
\* The search box of ConfigurationItems over items with text fields
\* ------------------------------------------------------------------------
\* Names, types and search terms as sequences of characters; the id of the
\* row at position k is "i<k>".
SearchNames == {<<"A", "b">>, <<"b">>, <<"c", "a">>}
SearchTypes == {<<"B">>, <<"c">>}
SearchTerms == {<<>>, <<"a">>, <<"B">>, <<"a", "B">>, <<"1">>}
ItemRecord(k, name, type) == [id |-> <<"i", ToString(k)>>, name |-> name,
                              item_type |-> type]

\* The state in which the refetch of a saved edit is on its way: the list
\* `before` was loaded and `term` typed, item id was opened with handleEdit,
\* its name changed and saved; the update and the insert of the log row
\* were answered without error. The item is one the term selects.
SavedEdit(before, term, id, name) ==
  LET page == "configuration_items"
      loaded == searchEffect([InitUi EXCEPT !.items = before,
                                            !.filteredItems = before,
                                            !.searchTerm = term,
                                            !.users = InitDb["users"]], InitUi)
      opened == handleEditUi(loaded, id)
      values == [before[id] EXCEPT !.name = name]
      sent == onFormSubmitRequest("edit", page, opened.selected, values, opened)
      answered == AfterMutation(sent, NoError, IdStr(id))
  IN [db |-> [InitDb EXCEPT ![page] = Mutated(sent, before, id)],
      ui |-> opened,
      tasks |-> <<[answered EXCEPT !.pc = "items"]>>,
      logs |-> logsInsert(<<>>, logEntry(answered.logged[1], 1)),
      notifications |-> addNotification(<<>>, [page |-> page, kind |-> "edit",
                                               name |-> values])]

\* The page mounts on a table of any content (its first fetchData is on its
\* way), or the refetch that follows a saved edit is on its way; the row
\* menu of the edited item was on display, so the term selects the item.
InitFilter ==
  /\ reg = <<>>
  /\ nextId = InitNextId
  /\ settings = {[id |-> 1, key |-> SETTING_KEY, value |-> UrlA]}
  /\ route = "configuration_items"
  /\ search = InitSearch
  /\ \E names \in [Ids -> SearchNames], types \in [Ids -> SearchTypes] :
       LET table == [k \in Ids |-> ItemRecord(k, names[k], types[k])] IN
       \/ /\ db = [InitDb EXCEPT !["configuration_items"] = table]
          /\ ui = [InitUi EXCEPT !.items = <<>>, !.filteredItems = <<>>]
          /\ tasks = MountTask(route)
          /\ logs = <<>>
          /\ notifications = <<>>
       \/ \E term \in SearchTerms, id \in Ids, name \in SearchNames :
            LET s == SavedEdit(table, term, id, name) IN
            /\ itemMatches(table[id], term)
            /\ db = s.db
            /\ ui = s.ui
            /\ tasks = s.tasks
            /\ logs = s.logs
            /\ notifications = s.notifications

NextFilter ==
  \/ \E term \in SearchTerms : setSearchTerm(term)
  \/ \E i \in TaskIds : fetchData(i)
  \/ \E i \in TaskIds : fetchDataUsers(i)

SpecFilter == InitFilter /\ [][NextFilter]_vars

\* ------------------------------------------------------------------------
\* Properties of the register-machine chain
\* ------------------------------------------------------------------------
Seq2Set(q) == {q[i] : i \in 1..Len(q)}

\* C1: every POST to /registrar-maquina gets exactly one JSON response, sent
\* by exec's callback: 500 {success: false, message: error text} when exec
\* reports an error, otherwise 200 {success: true, message: stdout}, also
\* when stderr is not empty; no request gets two responses.
C1_OneResponsePerRequest ==
  \A c \in Flows :
    LET f == reg[c] IN
    /\ Len(f.responses) <= 1
    /\ ~f.called => f.responses = <<>>
    /\ f.called =>
         /\ Len(f.responses) = 1
         /\ f.error # NoError =>
              f.responses[1] =
                [status |-> 500,
                 body |-> [success |-> FALSE,
                           message |-> <<"Erro no PowerShell: ", f.error>>]]
         /\ f.error = NoError =>
              f.responses[1] =
                [status |-> 200,
                 body |-> [success |-> TRUE, message |-> f.stdout]]

\* A request answered with success although the script wrote to stderr.
C1_Witness ==
  \E c \in Flows :
    /\ reg[c].called
    /\ reg[c].error = NoError
    /\ reg[c].stderr # <<>>
    /\ reg[c].responses[1].status = 200
    /\ reg[c].responses[1].body.success

\* C9 as stated: at most one inventory script runs at any time.
C9_OneScriptAtATime ==
  Cardinality({c \in Flows : Running(reg[c])}) <= 1

\* C9 amended: the helper does not serialise requests; every request the
\* route handler has received has had its script launched by that same
\* handler run, whether or not an earlier script is still running.
C9_LaunchOnArrival ==
  \A c \in Flows : reg[c].delivered => reg[c].script # "none"

\* Two scripts, launched for two requests, running at the same time.
C9_Witness ==
  \E c, d \in Flows : c # d /\ Running(reg[c]) /\ Running(reg[d])

\* C10: the chain is unretried; per click at most one POST to the helper,
\* per request exactly one launch of the script, per script run at most one
\* POST to the webhook, in every state and so also after any hop failed.
C10_Unretried ==
  \A c \in Flows :
    /\ reg[c].posts <= 1
    /\ reg[c].launches <= 1
    /\ reg[c].delivered => reg[c].launches = 1
    /\ Len(reg[c].hooks) <= 1

\* A chain that ended after its webhook POST failed: the script caught the
\* failure, the helper answered, the browser showed its toast.
C10_Witness ==
  \E c \in Flows :
    /\ reg[c].br = "done"
    /\ reg[c].called
    /\ LineErro \in Seq2Set(reg[c].stdout)
    /\ Len(reg[c].hooks) = 1
    /\ reg[c].launches = 1

\* C11 as stated, its last part: the browser shows a toast about the outcome
\* only after it received the helper's answer.
C11_ToastOnlyAfterAnswer ==
  \A c \in Flows : Len(reg[c].toasts) > 1 => reg[c].responses # <<>>

\* C11 amended: the script is launched only after the helper received the
\* POST, the webhook POST happens only after the script was launched and
\* wrote its collection lines, the helper answers only after the script has
\* exited, and the toasts "Maquina Registrada!" and "Erro ao registrar
\* maquina" are shown only after that answer; the toast "Erro de Conexao" is
\* shown when fetch rejects, with no answer, whatever the helper and the
\* script go on to do.
C11_OrderedHops ==
  \A c \in Flows : LET f == reg[c] IN
    /\ f.script # "none" => f.delivered /\ f.launches >= 1
    /\ f.hooks # <<>> =>
         /\ f.script \in {"posted", "exited"}
         /\ Len(f.stdout) >= 3
         /\ SubSeq(f.stdout, 1, 3) = <<LineColetando, LineColeta, LineEnviando>>
    /\ f.responses # <<>> => f.script = "exited" /\ f.called
    /\ f.br = "fetch" <=> Len(f.toasts) = 1
    /\ f.br = "done" =>
         /\ Len(f.toasts) = 2
         /\ f.toasts[2] \in {ToastRegistrada, ToastErroRegistrar} =>
              /\ f.responses # <<>>
              /\ f.toasts[2] = RegisterMachineToast(f.responses[1])
         /\ f.toasts[2] \notin {ToastRegistrada, ToastErroRegistrar} =>
              f.toasts[2] = ToastErroConexao

\* C11 witness: a chain that went through all hops in order and ended with
\* the success toast.
C11_Witness ==
  \E c \in Flows :
    /\ reg[c].br = "done"
    /\ reg[c].toasts = <<ToastRegistrando, ToastRegistrada>>
    /\ reg[c].hooks = <<webhookUrl>>
    /\ reg[c].script = "exited"
    /\ reg[c].responses[1].status = 200

\* ------------------------------------------------------------------------
\* Properties of the pages
\* ------------------------------------------------------------------------
\* The runs that attempt a mutation, and those whose mutation was answered.
MutationRuns == {i \in TaskIds : tasks[i].kind \in {"create", "edit", "delete", "settingsSave"}}
Answered(t) == t.pc \notin {"mutate", "settings preread", "settings update"}

ExpectedAction(kind) ==
  IF kind = "create" THEN "INSERT" ELSE IF kind = "delete" THEN "DELETE" ELSE "UPDATE"

\* C2: every create, update or delete attempted from the three record pages
\* and every Settings save calls logActivity exactly once, when its mutation
\* is answered, with the matching action and the table of the mutation; every
\* log row written for a run has that action and table and is_error = TRUE
\* exactly when the run's mutation returned an error; no run has two rows.
C2_LoggedOncePerMutation ==
  /\ \A i \in MutationRuns : LET t == tasks[i] IN
       /\ ~Answered(t) => t.logged = <<>>
       /\ Answered(t) =>
            /\ Len(t.logged) = 1
            /\ t.logged[1].action = ExpectedAction(t.kind)
            /\ t.logged[1].tableName = t.muts[1].table
            /\ (t.logged[1].isError = <<TRUE>>) <=> (t.err # NoError)
  /\ \A i \in TaskIds \ MutationRuns : tasks[i].logged = <<>>
  /\ \A k \in 1..Len(logs) : logs[k].task # 0 =>
       /\ logs[k].task \in MutationRuns
       /\ logs[k].action = ExpectedAction(tasks[logs[k].task].kind)
       /\ logs[k].table_name = tasks[logs[k].task].muts[1].table
       /\ logs[k].is_error = (tasks[logs[k].task].err # NoError)
       /\ \A j \in 1..Len(logs) : logs[j].task = logs[k].task => j = k

\* C2 witness: a failed delete and its log row with is_error = TRUE.
C2_Witness ==
  \E k \in 1..Len(logs) :
    /\ logs[k].task # 0
    /\ logs[k].is_error
    /\ logs[k].action = "DELETE"
    /\ tasks[logs[k].task].err # NoError

\* The call sites by what becomes of their error.
ToastSites == {SiteList, SiteOwners, SiteMutation, SiteSettingsLoad,
               SiteReportSettings, SiteReportPost, SiteRegisterPost}
InlineSites == {SiteDashItems, SiteSystemLogs, SiteRelationships, SiteReport,
                SiteSolution}
SilentSites == {SiteLog, SiteDashCounts, SiteSearch, SiteLookups,
                SiteSettingsPreread, SiteSettingsNoRow}

C3_Sites ==
  \A i \in TaskIds : LET t == tasks[i] IN
    /\ t.errs \subseteq ToastSites \cup InlineSites \cup SilentSites
    /\ t.errs \cap ToastSites \subseteq t.shown
    /\ t.live => t.errs \cap (InlineSites \ {SiteSolution}) \subseteq t.shown
    /\ t.shown \cap SilentSites = {}
    /\ t.shown \subseteq t.errs
    /\ t.thrown \subseteq t.errs \ SilentSites
    /\ t.thrown \subseteq t.caught

\* The step in which the AI-solution read returns its error: the message is
\* shown if and only if the page is mounted and the solution dialog is open
\* at that moment.
C3_SolutionStep ==
  \A i \in TaskIds :
    (SiteSolution \in tasks'[i].errs /\ SiteSolution \notin tasks[i].errs) =>
      (SiteSolution \in tasks'[i].shown <=> tasks[i].live /\ ui.isSolutionDialogOpen)

C4_LogsAppendOnly ==
  [][\/ logs' = logs
     \/ /\ Len(logs') = Len(logs) + 1
        /\ SubSeq(logs', 1, Len(logs)) = logs]_vars

\* C4 witness: a row written by a run after an earlier row.
C4_Witness ==
  /\ Len(logs) >= 2
  /\ logs[Len(logs)].task # 0

\* The request a run sent first, and whether a step starts a run.
FirstMut(t) == t.muts[1]
RunStarted == Len(tasks') = Len(tasks) + 1
Started == tasks'[Len(tasks')]

\* C5: a delete request is sent only by a step taken while the delete dialog
\* is open for a record, and it targets the id and table of that record; only
\* a delete run removes a row, and the row is the one it targeted; a step
\* that closes the delete dialog and starts no run (Cancelar) sends nothing
\* and leaves the tables unchanged.
C5_DeleteOnlyAfterConfirm ==
  /\ [](\A i \in TaskIds : LET t == tasks[i] IN
          /\ \A k \in 1..Len(t.muts) : t.muts[k].op = "delete" => t.kind = "delete"
          /\ t.kind = "delete" =>
               /\ t.openId # 0
               /\ t.muts = <<[op |-> "delete", table |-> t.page, id |-> t.openId]>>)
  /\ [][/\ (RunStarted /\ Started.kind = "delete") =>
             /\ ui.isDeleteOpen
             /\ ui.deleteFor # 0
             /\ FirstMut(Started) = [op |-> "delete", table |-> route,
                                     id |-> ui.deleteFor]
        /\ \A tb \in Tables, r \in Ids :
             (db[tb][r] # NoRow /\ db'[tb][r] = NoRow) =>
               \E i \in TaskIds : /\ tasks[i].kind = "delete"
                                  /\ tasks[i].pc = "mutate" /\ tasks'[i].pc # "mutate"
                                  /\ tasks[i].page = tb /\ tasks[i].openId = r
        /\ (ui.isDeleteOpen /\ ~ui'.isDeleteOpen /\ tasks' = tasks) => db' = db
       ]_vars

\* C5 witness: a confirmed delete of a record other than the first one
\* removed that record.
C5_Witness ==
  \E i \in TaskIds :
    /\ tasks[i].kind = "delete"
    /\ tasks[i].pc = "done"
    /\ tasks[i].err = NoError
    /\ tasks[i].openId = 2
    /\ db[tasks[i].page][1] # NoRow
    /\ db[tasks[i].page][2] = NoRow

\* C6: a submit in create mode sends one insert and no update, a submit in
\* edit mode sends one update matched on the id of the record the form was
\* opened for; the mode of the submit is that of the handler that last opened
\* the form; an answered update changes no row but the one it matched, an
\* answered insert adds one row and changes none.
C6_SubmitFollowsOpener ==
  /\ [](\A i \in TaskIds : LET t == tasks[i] IN
          /\ t.kind = "create" =>
               /\ t.opener = "handleCreate"
               /\ t.muts = <<[op |-> "insert", table |-> t.page, id |-> 0]>>
          /\ t.kind = "edit" =>
               /\ t.opener = "handleEdit"
               /\ t.openId # 0
               /\ t.muts = <<[op |-> "update", table |-> t.page, id |-> t.openId]>>)
  /\ [][\A i \in TaskIds :
          (tasks[i].pc = "mutate" /\ tasks'[i].pc # "mutate") =>
            \A tb \in Tables, r \in Ids :
              db'[tb][r] # db[tb][r] =>
                /\ tb = tasks[i].page
                /\ tasks[i].kind = "edit" => r = tasks[i].openId
                /\ tasks[i].kind = "create" => db[tb][r] = NoRow
       ]_vars

\* C6 witness: an answered update changed the record the form was opened
\* for, after the form had been opened by handleEdit.
C6_Witness ==
  \E i \in TaskIds :
    /\ tasks[i].kind = "edit"
    /\ tasks[i].opener = "handleEdit"
    /\ tasks[i].err = NoError
    /\ tasks[i].pc = "done"
    /\ tasks[i].openId = 2
    /\ db[tasks[i].page][2] = tasks[i].val
    /\ tasks[i].val # InitTable[2]

\* C7 as stated: every webhook POST of the UI goes to the URL its handler
\* read from the settings table.
C7_PostsToStoredUrl ==
  \A i \in TaskIds : \A k \in 1..Len(tasks[i].posts) :
    tasks[i].posts[k] = tasks[i].val

\* C8: a report click that finds no webhook configuration sends no POST,
\* ends with the error toast and ends; isSendingReport is TRUE only while a
\* run of the handler is in flight on the mounted Dashboard.
C8_MissingConfigDegrades ==
  /\ \A i \in TaskIds : LET t == tasks[i] IN
       (t.kind = "report" /\ t.pc # "report settings" /\ t.val = NoRow) =>
         /\ t.posts = <<>>
         /\ t.pc = "done"
         /\ t.toasts = <<"Gerando relatorio...", "Erro ao gerar relatorio">>
  /\ ui.isSendingReport =>
       \E i \in TaskIds : tasks[i].kind = "report" /\ tasks[i].live
                          /\ tasks[i].pc # "done"

\* C8 witness: the stored value was empty (no error was returned), nothing
\* was posted and the button is enabled again.
C8_Witness ==
  \E i \in TaskIds :
    /\ tasks[i].kind = "report"
    /\ tasks[i].pc = "done"
    /\ tasks[i].live
    /\ tasks[i].val = NoRow
    /\ tasks[i].errs = {}
    /\ tasks[i].posts = <<>>
    /\ ~ui.isSendingReport

\* The runs started by a user action of C12, and the calls a run can await
\* after the one it awaits now.
UserActionKinds == {"create", "edit", "delete", "settingsSave", "report"}

NextCalls(t) ==
  CASE t.pc = "mutate" -> {"log"}
    [] t.pc = "settings preread" -> {"settings update"}
    [] t.pc = "settings update" -> {"log"}
    [] t.pc = "log" -> IF t.kind = "settingsSave" \/ t.err # NoError
                       THEN {"done"} ELSE {"items"}
    [] t.pc = "items" -> IF t.page = "users" THEN {"done"} ELSE {"owners"}
    [] t.pc = "owners" -> IF t.page = "incidents" THEN {"cis"} ELSE {"done"}
    [] t.pc = "cis" -> {"done"}
    [] t.pc = "report settings" -> {"report post", "done"}
    [] t.pc = "report post" -> {"done"}
    [] OTHER -> {}

\* C12 as stated: a user action issues one network call, so its run is over
\* when the call it started with is answered.
C12_OneCallPerAction ==
  \A i \in TaskIds :
    tasks[i].kind \in UserActionKinds =>
      tasks[i].pc \in {"mutate", "settings preread", "report settings", "done"}

\* C12 amended: a form submit, a delete confirmation and a Settings save each
\* send exactly one mutation request and no webhook POST, a report click
\* sends no mutation and at most one webhook POST; around it the run makes
\* further calls, one after the other: the audit-log write after the
\* mutation, on success of a form submit or delete the refetch of the page's
\* lists, before a Settings update the read of the old value, before the
\* report's POST the read of the settings row. The form dialog is closed and
\* isSendingReport is reset by a run only with its last call.
C12_CallsPerAction ==
  /\ [](\A i \in TaskIds : LET t == tasks[i] IN
          /\ t.kind \in {"create", "edit", "delete"} =>
               Len(t.muts) = 1 /\ t.posts = <<>>
          /\ t.kind = "settingsSave" =>
               /\ t.posts = <<>>
               /\ Len(t.muts) = IF t.pc = "settings preread" THEN 0 ELSE 1
          /\ t.kind = "report" =>
               /\ t.muts = <<>>
               /\ Len(t.posts) = IF t.pc = "report post" \/ t.val # NoRow
                                 THEN 1 ELSE 0)
  /\ [][/\ \A i \in TaskIds :
             (tasks[i].kind \in UserActionKinds /\ tasks'[i].pc # tasks[i].pc)
               => tasks'[i].pc \in NextCalls(tasks[i])
        /\ (route' = route /\ tasks' # tasks
              /\ \/ ui.isFormOpen /\ ~ui'.isFormOpen
                 \/ ui.isSendingReport /\ ~ui'.isSendingReport)
             => \E i \in TaskIds : tasks[i].pc # "done" /\ tasks'[i].pc = "done"
       ]_vars

\* C12 witness: a create submitted on the Incidents page awaits the third
\* select of its refetch, its fifth call.
C12_Witness ==
  \E i \in TaskIds :
    /\ tasks[i].kind = "create"
    /\ tasks[i].page = "incidents"
    /\ tasks[i].pc = "cis"
    /\ Len(tasks[i].muts) = 1

\* The graph the Relationships page shows, and the tables it was built from:
\* configuration_items as the first select read it and users as the second
\* select read it.
Graph == useMemo(ui.data)
GraphItems == tasks[1].val["configuration_items"]
GraphUsers == tasks[1].acc[2]
NodesOf(type) == SelectSeq(Graph.nodes, LAMBDA n : n.type = type)
NodeIds(type) == {NodesOf(type)[k].id : k \in 1..Len(NodesOf(type))}
Matching == {k \in 1..Len(GraphItems) :
               /\ GraphItems[k].item_owner # NullOwner
               /\ \E u \in 1..Len(GraphUsers) :
                    GraphUsers[u].name = GraphItems[k].item_owner}

\* C13: once the data is loaded, the graph has one CI node per item (of
\* configuration_items as the first select read it) whose owner is non-null
\* and is the name of a user (of users as the second select read it, another
\* client's writes between the two selects included), and none for any other
\* item;
\* one edge per CI node, from the node of a user of the owner's name to it;
\* one user node per user that has an edge, none for other users and never
\* two for one user id; so an item whose owner name two users share hangs on
\* exactly one of them.
C13_GraphIsJoin ==
  ui.query = "success" =>
    /\ Len(NodesOf("ciNode")) = Cardinality(Matching)
    /\ NodeIds("ciNode") = {<<"ci", GraphItems[k].id>> : k \in Matching}
    /\ Len(Graph.edges) = Cardinality(Matching)
    /\ \A k \in Matching :
         LET E == {j \in 1..Len(Graph.edges) :
                     Graph.edges[j].target = <<"ci", GraphItems[k].id>>}
         IN /\ Cardinality(E) = 1
            /\ \A j \in E : \E u \in 1..Len(GraphUsers) :
                 /\ Graph.edges[j].source = <<"user", GraphUsers[u].id>>
                 /\ GraphUsers[u].name = GraphItems[k].item_owner
    /\ Len(NodesOf("userNode")) = Cardinality(NodeIds("userNode"))
    /\ NodeIds("userNode") = {Graph.edges[j].source : j \in 1..Len(Graph.edges)}
    /\ Len(Graph.nodes) = Len(NodesOf("ciNode")) + Len(NodesOf("userNode"))

\* C13 witness: two users share the name of the owner of two items, a third
\* item names no user; the graph has two CI nodes, one user node, two edges.
C13_Witness ==
  /\ ui.query = "success"
  /\ Len(GraphUsers) >= 2
  /\ GraphUsers[1].name = GraphUsers[2].name
  /\ Cardinality(Matching) = 2
  /\ \E k \in 1..Len(GraphItems) : GraphItems[k].item_owner = "zoe"
  /\ \A k \in Matching : GraphItems[k].item_owner = GraphUsers[1].name
  /\ Len(NodesOf("userNode")) = 1
  /\ Len(Graph.edges) = 2

\* ------------------------------------------------------------------------
\* Properties of the create/edit forms
\* ------------------------------------------------------------------------
\* A step of form.handleSubmit, and whether it sent onFormSubmit's request.
SubmitStep == ui'.submits = ui.submits + 1
RequestSent == Len(tasks') = Len(tasks) + 1

\* The string lengths C14 names.
LengthsOk(values) ==
  /\ values["name"].t = "string" /\ Len(values["name"].s) >= 3
  /\ \A f \in {"item_type", "status", "environment", "item_owner"} :
       values[f].t = "string" /\ Len(values[f].s) >= 1

\* C14 as stated: a configuration-item submit is sent if and only if name has
\* at least 3 characters and item_type, status, environment and item_owner
\* are non-empty, whatever the optional attributes hold, also in edit mode
\* on a record whose attributes are null; a rejected submit sends no request
\* and writes no log.
C14_LengthDecidesAlone ==
  [][(route = "configuration_items" /\ SubmitStep) =>
       /\ RequestSent <=> LengthsOk(ui.values)
       /\ logs' = logs
       /\ db' = db]_vars

\* The fields whose Select offers a fixed list of options.
EnumFields(page) ==
  IF page = "incidents" THEN {"status", "priority"} ELSE {"item_type", "status"}

\* C15 as stated: a submit whose item_type or status (configuration item),
\* status or priority (incident) is not one of the form's options is
\* rejected, so every request a form submit has sent and that is not yet
\* answered carries listed values.
C15_EnumEnforced ==
  \A i \in 1..Len(tasks) :
    tasks[i].pc = "mutate" =>
      \A f \in EnumFields(tasks[i].page) :
        tasks[i].values[f] \in {Str(o) : o \in SelectOptions(tasks[i].page, f)}

\* ------------------------------------------------------------------------
\* Properties of the pages: failure of a mutation
\* ------------------------------------------------------------------------
\* Run i takes a step of its handler.
RunStep(i) == tasks'[i].pc # tasks[i].pc

\* The last await of the refetch a successful mutation ends with.
LastFetch(page) ==
  CASE page = "users" -> "items"
    [] page = "incidents" -> "cis"
    [] OTHER -> "owners"

\* C16: a create or update that returned an error is not retried: its run
\* has sent one mutation request, never fetches the list, and no step of it
\* closes the form dialog or changes the list the page holds or the table;
\* a run closes the form dialog only when its mutation succeeded, with the
\* last await of its refetch. A delete run closes the delete dialog with
\* its last step after a success as after an error.
C16_NoRetryOnError ==
  /\ [](\A i \in TaskIds : LET t == tasks[i] IN
          (t.kind \in {"create", "edit", "delete"} /\ t.err # NoError) =>
             /\ Len(t.muts) = 1
             /\ t.pc \in {"log", "done"})
  /\ [][/\ \A i \in TaskIds : RunStep(i) =>
             LET t == tasks'[i] IN
             /\ (t.kind \in {"create", "edit"} /\ t.err # NoError) =>
                  /\ ui'.isFormOpen = ui.isFormOpen
                  /\ ui'.items = ui.items
                  /\ db' = db
                  /\ t.muts = tasks[i].muts
             /\ (t.kind = "delete" /\ t.live /\ t.pc = "done") =>
                  ~ui'.isDeleteOpen
        /\ (route' = route /\ tasks' # tasks /\ ui.isFormOpen /\ ~ui'.isFormOpen) =>
             \E i \in TaskIds :
               /\ tasks[i].kind \in {"create", "edit"}
               /\ tasks[i].err = NoError
               /\ tasks[i].pc = LastFetch(tasks[i].page)
               /\ tasks'[i].pc = "done"
       ]_vars

\* C16 witness: a submit whose insert or update failed has ended on the
\* page it was sent from, and the form dialog is still open.
C16_Witness ==
  \E i \in TaskIds :
    /\ tasks[i].kind \in {"create", "edit"}
    /\ tasks[i].err # NoError
    /\ tasks[i].pc = "done"
    /\ tasks[i].live
    /\ ui.isFormOpen

\* ------------------------------------------------------------------------
\* Properties of the Dashboard counters
\* ------------------------------------------------------------------------
\* A create or delete of a configuration item or incident is committed.
Committed ==
  \E i \in TaskIds :
    /\ tasks[i].kind \in {"create", "delete"}
    /\ tasks[i].page \in {"configuration_items", "incidents"}
    /\ tasks[i].pc # "mutate"
    /\ tasks[i].err = NoError

\* The Dashboard shows the row counts the backend holds now.
CountersCurrent ==
  /\ route = "dashboard"
  /\ ui.query = "success"
  /\ ui.data.config_items_count = RowCount(db["configuration_items"])
  /\ ui.data.incidents = RowCount(db["incidents"])

\* C17 as stated: the Dashboard is real time: after a create or delete of a
\* configuration item or incident is committed, the counters shown come to
\* equal the backend's row counts without any user action.
C17_RealTime == Committed ~> CountersCurrent

SaveSucceeds(i) ==
  /\ tasks[i].kind = "settingsSave"
  /\ tasks[i].pc = "settings update"
  /\ tasks'[i].pc = "log"
  /\ tasks'[i].err = NoError

\* C19 as stated: when a Settings save of value U shows the success toast,
\* the settings table holds exactly one row with key n8n_webhook_url and its
\* value is U, also when there was no such row before; no step leaves two
\* rows with that key.
C19_SaveRoundTrips ==
  [][/\ \A i \in TaskIds : SaveSucceeds(i) =>
          {r.value : r \in {r \in settings' : r.key = SETTING_KEY}} = {tasks[i].val}
     /\ \A r \in settings', s \in settings' :
          (r.key = SETTING_KEY /\ s.key = SETTING_KEY) => r = s
    ]_vars

\* Run i sends the report's POST in this step.
ReportPosted(i) ==
  /\ tasks[i].kind = "report"
  /\ tasks[i].pc = "report settings"
  /\ tasks'[i].pc = "report post"

\* C20 as stated: the row the Dashboard reads is the row the Settings page
\* writes, whatever the settings table holds: the report's POST goes to the
\* value of the row with key n8n_webhook_url, and a report is refused as
\* unconfigured only when that row is missing or empty.
C20_ReadsRowWritten ==
  [][\A i \in TaskIds :
       /\ ReportPosted(i) =>
            {r.value : r \in ByKey(SETTING_KEY)} = {tasks'[i].posts[1]}
       /\ (tasks[i].kind = "report" /\ tasks[i].pc = "report settings"
             /\ tasks'[i].pc = "done" /\ tasks'[i].errs = {}) =>
            {r.value : r \in ByKey(SETTING_KEY)} \subseteq {""}
    ]_vars

\* ------------------------------------------------------------------------
\* Properties of the register-machine chain: termination and delivery
\* ------------------------------------------------------------------------
\* C23: every request the helper received is answered in the end, given that
\* its script exits; the answer is sent by exec's callback after the
\* script's exit and never while the script has not exited.
C23_AnsweredAtExit ==
  /\ \A c \in 1..MaxClicks :
       (c \in Flows /\ reg[c].delivered) ~> (c \in Flows /\ Len(reg[c].responses) = 1)
  /\ [](\A c \in Flows : reg[c].responses # <<>> => reg[c].script = "exited")

\* C23 witness: a request is answered after its script was aborted while
\* the script of another request has not exited yet.
C23_Witness ==
  \E c, d \in Flows :
    /\ reg[c].delivered /\ reg[c].error # NoError
    /\ Len(reg[c].responses) = 1
    /\ Running(reg[d])

\* The script's POST to the webhook failed: it printed its error line.
PostFailed(f) == \E k \in 1..Len(f.stdout) : f.stdout[k] = LineErro

\* C24: a success answer does not imply delivery. When the script's POST to
\* the webhook fails and the script then exits normally, the helper answers
\* 200 {success: true} and the browser, when it reads the answer, shows
\* "Maquina Registrada!"; the helper answers failure exactly when exec
\* reports an error.
C24_SuccessWithoutDelivery ==
  \A c \in Flows :
    LET f == reg[c] IN
    /\ f.called => (f.responses[1].body.success <=> f.error = NoError)
    /\ (f.called /\ PostFailed(f) /\ f.error = NoError) =>
         /\ f.responses[1].status = 200
         /\ f.responses[1].body.success
         /\ (f.br = "done" /\ Len(f.toasts) = 2) =>
              f.toasts[2] \in {ToastRegistrada, ToastErroConexao}

\* C24 witness: the webhook refused the POST and the browser shows
\* "Maquina Registrada!".
C24_Witness ==
  \E c \in Flows :
    /\ PostFailed(reg[c])
    /\ reg[c].called
    /\ reg[c].br = "done"
    /\ reg[c].toasts = <<ToastRegistrando, ToastRegistrada>>

\* ------------------------------------------------------------------------
\* Properties of the record pages with overlapping submits
\* ------------------------------------------------------------------------
\* Every request the page issued is answered, none with an error.
AllAnswered == \A i \in TaskIds : tasks[i].pc = "done" /\ tasks[i].errs = {}

\* C21 as stated: once every request of the Configuration Items page is
\* completed, the list the page shows equals the rows of configuration_items,
\* for every interleaving of overlapping submits and of the responses of
\* their refetches.
C21_ListEqualsBackend ==
  (route = "configuration_items" /\ AllAnswered) =>
     ui.items = db["configuration_items"]

\* The content of a users row is the user's name and the content of a
\* configuration_items row carries its item_owner, a name picked in the form;
\* an owner is dangling when no users row has that name.
DanglingOwner ==
  \E i \in Ids :
     /\ db["configuration_items"][i] # NoRow
     /\ \A j \in Ids : db["users"][j] # db["configuration_items"][i]

\* C22: every step of an edit or delete started on the Users page leaves
\* configuration_items and incidents as they are, changes no users row other
\* than the one of the run's id, and adds at most one row at the end of logs.
C22_NoCascadingWrites ==
  [][\A i \in TaskIds :
       (tasks[i].page = "users" /\ tasks[i].kind \in {"edit", "delete"}
        /\ RunStep(i)) =>
          /\ db'["configuration_items"] = db["configuration_items"]
          /\ db'["incidents"] = db["incidents"]
          /\ \A j \in Ids \ {tasks[i].id} : db'["users"][j] = db["users"][j]
          /\ \/ logs' = logs
             \/ /\ Len(logs') = Len(logs) + 1
                /\ SubSeq(logs', 1, Len(logs)) = logs
                /\ logs'[Len(logs')].table_name = "users"]_vars

\* A user was renamed or deleted, the change is logged, and an item still
\* names the owner that no users row has any more.
C22_Witness ==
  /\ route = "users"
  /\ \E i \in TaskIds :
       /\ tasks[i].page = "users" /\ tasks[i].kind \in {"edit", "delete"}
       /\ tasks[i].pc = "done" /\ tasks[i].errs = {}
       /\ db["users"][tasks[i].id] # InitTable[tasks[i].id]
       /\ \E k \in 1..Len(logs) : logs[k].task = i /\ logs[k].table_name = "users"
  /\ db["configuration_items"] = InitTable
  /\ DanglingOwner

\* A step in which the backend answers the mutation of run i with success.
MutationSucceeds(i) ==
  /\ tasks[i].pc \in {"mutate", "settings update"}
  /\ tasks'[i].pc = "log"
  /\ tasks'[i].err = NoError

\* C26: a successful create, edit or delete of a configuration item or an
\* incident adds one entry at the end of the notification list and keeps the
\* entries before it; any other step of a run (a failed mutation, a users or
\* settings mutation, a log write, a fetch) leaves the list as it is; the only
\* other change is clearNotifications, which empties it; the bell's badge is
\* rendered exactly for a non-empty list and shows its length.
C26_NotificationList ==
  /\ [](/\ BellBadge(notifications) = <<>> <=> notifications = <<>>
        /\ BellBadge(notifications) # <<>>
             => BellBadge(notifications)[1] = Len(notifications))
  /\ [][/\ \A i \in TaskIds :
            RunStep(i) =>
              IF MutationSucceeds(i)
                 /\ tasks[i].page \in {"configuration_items", "incidents"}
              THEN /\ Len(notifications') = Len(notifications) + 1
                   /\ SubSeq(notifications', 1, Len(notifications)) = notifications
                   /\ notifications'[Len(notifications')].page = tasks[i].page
                   /\ notifications'[Len(notifications')].kind = tasks[i].kind
              ELSE notifications' = notifications
        /\ (\A i \in TaskIds : ~RunStep(i)) =>
              \/ notifications' = notifications
              \/ /\ notifications' = <<>>
                 /\ tasks' = tasks /\ db' = db /\ ui' = ui]_vars

\* Two mutations of the page succeeded one after the other and the list holds
\* their two entries in that order.
C26_Witness ==
  /\ Len(tasks) = 2
  /\ tasks[1].kind = "edit" /\ tasks[2].kind = "delete"
  /\ tasks[1].err = NoError /\ tasks[2].err = NoError
  /\ tasks[1].pc = "done" /\ tasks[2].pc = "done"
  /\ Len(notifications) = 2
  /\ notifications[1].kind = "edit" /\ notifications[2].kind = "delete"
  /\ BellBadge(notifications) = <<2>>

\* ------------------------------------------------------------------------
\* The layout of the relationship graph
\* ------------------------------------------------------------------------
\* Of the joined items, the one at position k: how many distinct owners come
\* before its owner, and how many items of its owner come before it.
OwnerRank(k) ==
  LET first == CHOOSE j \in 1..k :
                  /\ ui.data[j].responsible.id = ui.data[k].responsible.id
                  /\ \A h \in 1..(j - 1) :
                        ui.data[h].responsible.id # ui.data[k].responsible.id
  IN Cardinality({ui.data[h].responsible.id : h \in 1..(first - 1)})
ItemRank(k) ==
  Cardinality({h \in 1..(k - 1) :
                 ui.data[h].responsible.id = ui.data[k].responsible.id})

\* C28: for the joined items the page holds, the node of the k-th distinct
\* owner is at (50, 250*k), the node of the j-th item of an owner is at
\* (450 + 280*j, the owner's y), and no two nodes have the same position.
C28_LayoutPositions ==
  ui.query = "success" =>
  LET nodes == Graph.nodes
      At(id) == {n \in 1..Len(nodes) : nodes[n].id = id}
  IN /\ \A k \in 1..Len(ui.data) :
          /\ \E n \in At(<<"ci", ui.data[k].id>>) :
                /\ nodes[n].x = 450 + 280 * ItemRank(k)
                /\ nodes[n].y = 250 * OwnerRank(k)
          /\ \E n \in At(<<"user", ui.data[k].responsible.id>>) :
                /\ nodes[n].x = 50
                /\ nodes[n].y = 250 * OwnerRank(k)
     /\ \A a, b \in 1..Len(nodes) :
          a # b => <<nodes[a].x, nodes[a].y>> # <<nodes[b].x, nodes[b].y>>

\* The graph of three items of two owners is laid out: the second owner is
\* on the second row and one owner has two items on its row.
C28_Witness ==
  /\ ui.query = "success"
  /\ Len(ui.data) = 3
  /\ Len(NodesOf("userNode")) = 2
  /\ \E k \in 1..3 : ItemRank(k) = 1 /\ OwnerRank(k) = 1
  /\ \E n \in 1..Len(Graph.nodes) : Graph.nodes[n].x = 730 /\ Graph.nodes[n].y = 250

\* ------------------------------------------------------------------------
\* Properties of the report button
\* ------------------------------------------------------------------------
\* The report runs that still wait for the settings read or for the POST.
ReportsInFlight == {i \in TaskIds : tasks[i].kind = "report" /\ tasks[i].pc # "done"}

\* C25 as stated: at any time at most one report request of the Dashboard is
\* in flight.
C25_OneReportInFlight == Cardinality(ReportsInFlight) <= 1

\* ------------------------------------------------------------------------
\* Properties of the Dashboard's cards
\* ------------------------------------------------------------------------
\* The value of the card "Incidentes Abertos": data.incidents.
IncidentesAbertos == ui.data.incidents

\* C29 as stated: once the query has answered, every count without an error,
\* the card "Incidentes Abertos" shows the number of incidents whose status is
\* "Aberto".
C29_CardCountsOpen ==
  (ui.query = "success" /\ \A i \in TaskIds : tasks[i].errs = {}) =>
     IncidentesAbertos = Cardinality({k \in Ids : db["incidents"][k] = "Aberto"})

\* ------------------------------------------------------------------------
\* Properties of the Reports page
\* ------------------------------------------------------------------------
\* The rows of texto_relatorio created today, and the parts the page shows:
\* the reportContent without its separators.
TodaysParts ==
  {k \in 1..Len(db["texto_relatorio"]) :
     db["texto_relatorio"][k].created_at >= StartOfToday}
ShownParts == [k \in 1..((Len(ui.data) + 1) \div 2) |-> ui.data[2 * k - 1]]
RowOf(p) == CHOOSE k \in 1..Len(db["texto_relatorio"]) :
              db["texto_relatorio"][k].relatorio = p
CreatedAt(p) == db["texto_relatorio"][RowOf(p)].created_at

\* C30: after a load that met no error, the page shows min(3, number of
\* today's parts) parts, each one a row created today and none twice, no row
\* of today left out is newer than a part shown, the parts are in order of
\* created_at, oldest first, and between two neighbours stands one blank line;
\* while a load is under way nothing is shown.
C30_ReportAssembly ==
  tasks # <<>> =>
    /\ ui.isLoading => ui.data = <<>>
    /\ (~ui.isLoading /\ tasks[Len(tasks)].err = NoError) =>
          LET n == Len(ShownParts) IN
          /\ n = (IF Cardinality(TodaysParts) < 3 THEN Cardinality(TodaysParts) ELSE 3)
          /\ Len(ui.data) = (IF n = 0 THEN 0 ELSE 2 * n - 1)
          /\ \A k \in 1..(n - 1) : ui.data[2 * k] = BlankLine
          /\ \A k \in 1..n :
                \E r \in TodaysParts : db["texto_relatorio"][r].relatorio = ShownParts[k]
          /\ \A a, b \in 1..n : a # b => ShownParts[a] # ShownParts[b]
          /\ \A a, b \in 1..n :
                a < b => CreatedAt(ShownParts[a]) <= CreatedAt(ShownParts[b])
          /\ \A r \in TodaysParts :
                (\A k \in 1..n : ShownParts[k] # db["texto_relatorio"][r].relatorio)
                  => \A k \in 1..n :
                       db["texto_relatorio"][r].created_at <= CreatedAt(ShownParts[k])

\* The table holds a part of yesterday and three of today, one of them
\* created later than another; the report shows the three parts of today.
C30_Witness ==
  /\ tasks # <<>> /\ tasks[Len(tasks)].pc = "done" /\ tasks[Len(tasks)].err = NoError
  /\ Len(db["texto_relatorio"]) = MaxParts
  /\ Cardinality(TodaysParts) = 3
  /\ \E k \in 1..Len(db["texto_relatorio"]) :
       db["texto_relatorio"][k].created_at < StartOfToday
  /\ Len(ui.data) = 5
  /\ CreatedAt(ui.data[1]) < CreatedAt(ui.data[5])

\* ------------------------------------------------------------------------
\* Properties of the search box
\* ------------------------------------------------------------------------
\* s contains t when case is ignored, letter by letter.
ContainsIgnoringCase(s, t) ==
  \E i \in 1..(Len(s) + 1) :
     /\ i + Len(t) - 1 <= Len(s)
     /\ \A k \in 1..Len(t) : LowerOf(s[i + k - 1]) = LowerOf(t[k])

\* The positions of the fetched items that the search term selects.
Selected ==
  {k \in 1..Len(ui.items) :
     \/ ContainsIgnoringCase(ui.items[k].name, ui.searchTerm)
     \/ ContainsIgnoringCase(ui.items[k].item_type, ui.searchTerm)
     \/ ContainsIgnoringCase(ui.items[k].id, ui.searchTerm)}

\* C27: in every state of the Configuration Items page, each handler and the
\* effect that follows it being over, the rows displayed are exactly the
\* fetched items whose name, item_type or id contains the search term, case
\* ignored, in the order fetched; for the empty term they are all the items.
C27_DisplayedIsFiltered ==
  /\ Len(ui.filteredItems) = Cardinality(Selected)
  /\ \A k \in 1..Len(ui.items) :
       k \in Selected <=> \E j \in 1..Len(ui.filteredItems) :
                             ui.filteredItems[j] = ui.items[k]
  /\ \A a, b \in 1..Len(ui.filteredItems) :
       a < b => \E k, h \in Selected :
                  /\ k < h
                  /\ ui.items[k] = ui.filteredItems[a]
                  /\ ui.items[h] = ui.filteredItems[b]
  /\ ui.searchTerm = <<>> => ui.filteredItems = ui.items

\* The refetch after a saved edit was answered while the term "aB" was in
\* the search box, and the page displays some of the fetched items, not all.
C27_Witness ==
  /\ tasks[1].kind = "edit" /\ tasks[1].pc = "done" /\ tasks[1].errs = {}
  /\ ui.searchTerm = <<"a", "B">>
  /\ ui.items = db["configuration_items"]
  /\ Len(ui.filteredItems) > 0
  /\ Len(ui.filteredItems) < Len(ui.items)

====
